---- MODULE Spec2Model ----
(***************************************************************************)
(* A model of the stardust_db engine: the value model, the constraint      *)
(* engine of the table handler, the foreign-key registry with its          *)
(* referential actions, and the statement executor for INSERT, UPDATE and  *)
(* DELETE.                                                                 *)
(*                                                                         *)
(* Strings are sequences of byte codes (97 is 'a', 48 is '0'), so that     *)
(* ordering, parsing and formatting are computed and not assumed.  Column  *)
(* indices are 1-based (the source's index i is i+1 here).  Table and      *)
(* column names are TLA+ strings: the code only tests them for equality.   *)
(***************************************************************************)
EXTENDS Integers, Sequences, FiniteSets, TLC

VARIABLES
    tables,        \* the @tables tree: table name -> TableDefinition
    foreign_keys,  \* the @foreign_keys tree: row key -> foreign key record
    trees,         \* one tree per user table: table name -> (row key -> row)
    result         \* the statement executed last and what it returned

vars == <<tables, foreign_keys, trees, result>>

----------------------------------------------------------------------------
(* Bounds of the model.                                                    *)

MaxKey == 1        \* INSERT is explored while the assigned row key is <= MaxKey
MaxStmtRows == 2   \* rows in the VALUES list of one INSERT
MaxDepth == 4      \* nesting of referential actions that is followed

----------------------------------------------------------------------------
(* Value model (data_types.rs).                                            *)

IntMax == 2147483647
IntMin == (-IntMax) - 1

Null == [t |-> "Null", i |-> 0, s |-> <<>>]
Integer(n) == [t |-> "Integer", i |-> n, s |-> <<>>]
String(cs) == [t |-> "String", i |-> 0, s |-> cs]
\* the Err(..) arm of a Result<Value>
ValueError == [t |-> "Error", i |-> 0, s |-> <<>>]

is_null(v) == v.t = "Null"

IsWhitespace(c) == c \in {9, 10, 11, 12, 13, 32}
IsDigit(c) == c \in 48..57

RECURSIVE trim_start(_)
trim_start(cs) ==
    IF cs # <<>> /\ IsWhitespace(Head(cs)) THEN trim_start(Tail(cs)) ELSE cs

\* the digit loop of string_to_int: result.checked_mul(10).checked_add(digit)
RECURSIVE read_digits(_, _, _)
read_digits(cs, acc, sign) ==
    IF cs = <<>> \/ ~IsDigit(Head(cs))
    THEN IF sign THEN -acc ELSE acc
    ELSE LET d == Head(cs) - 48 IN
         IF acc > (IntMax - d) \div 10
         THEN IF sign THEN IntMin ELSE IntMax
         ELSE read_digits(Tail(cs), acc * 10 + d, sign)

\* a string_to_int that reads the sign and the digits from the first byte
string_to_int_untrimmed(cs) ==
    IF cs = <<>> THEN 0
    ELSE IF Head(cs) = 45 THEN read_digits(Tail(cs), 0, TRUE)
    ELSE read_digits(cs, 0, FALSE)

string_to_int(cs) ==
    LET t == trim_start(cs) IN
    IF t = <<>> THEN 0
    ELSE IF Head(t) = 45 THEN read_digits(Tail(t), 0, TRUE)
    ELSE read_digits(t, 0, FALSE)

RECURSIVE digits_of(_)
digits_of(n) ==
    IF n < 10 THEN <<48 + n>> ELSE digits_of(n \div 10) \o <<48 + (n % 10)>>

\* i64::to_string
int_to_string(n) == IF n < 0 THEN <<45>> \o digits_of(-n) ELSE digits_of(n)

\* Value::cast / TypeContents::cast
cast(v, ty) ==
    IF v.t = "Null" THEN Null
    ELSE IF ty = "Integer"
         THEN (IF v.t = "Integer" THEN v ELSE Integer(string_to_int(v.s)))
         ELSE (IF v.t = "String" THEN v ELSE String(int_to_string(v.i)))

\* TypeContents::is_true through Value::is_true
is_true(v) ==
    /\ v.t \in {"Integer", "String"}
    /\ (IF v.t = "Integer" THEN v.i ELSE string_to_int(v.s)) > 0

\* Value::get_truth: From<IntegerStorage> for TruthValue maps 0 to False
\* and every other integer to True
get_truth(v) ==
    IF v.t = "Null" THEN "Unknown"
    ELSE IF (IF v.t = "Integer" THEN v.i ELSE string_to_int(v.s)) = 0
         THEN "False" ELSE "True"

truth_value(tv) ==
    IF tv = "True" THEN Integer(1) ELSE IF tv = "False" THEN Integer(0) ELSE Null

truth_and(a, b) ==
    IF a = "True" /\ b = "True" THEN "True"
    ELSE IF a = "Unknown" \/ b = "Unknown" THEN "Unknown"
    ELSE "False"

truth_or(a, b) ==
    IF a = "False" /\ b = "False" THEN "False"
    ELSE IF a = "True" \/ b = "True" THEN "True"
    ELSE "Unknown"

ordering(a, b) ==
    IF a < b THEN "LessThan" ELSE IF a > b THEN "GreaterThan" ELSE "Equal"

\* str::cmp: lexicographic on bytes
RECURSIVE str_cmp(_, _)
str_cmp(a, b) ==
    IF a = <<>> THEN (IF b = <<>> THEN "Equal" ELSE "LessThan")
    ELSE IF b = <<>> THEN "GreaterThan"
    ELSE IF Head(a) # Head(b) THEN ordering(Head(a), Head(b))
    ELSE str_cmp(Tail(a), Tail(b))

\* a compare that casts the integer to a string when the other operand is a
\* string
compare_as_strings(a, b) ==
    IF a.t = "Null" \/ b.t = "Null" THEN "Unknown"
    ELSE IF a.t = "Integer" /\ b.t = "Integer" THEN ordering(a.i, b.i)
    ELSE str_cmp(cast(a, "String").s, cast(b, "String").s)

\* Value::compare
compare(a, b) ==
    IF a.t = "Null" \/ b.t = "Null" THEN "Unknown"
    ELSE IF a.t = "String" /\ b.t = "String" THEN str_cmp(a.s, b.s)
    ELSE IF a.t = "Integer" /\ b.t = "Integer" THEN ordering(a.i, b.i)
    ELSE IF a.t = "String" THEN ordering(string_to_int(a.s), b.i)
    ELSE ordering(a.i, string_to_int(b.s))

\* Comparison::get_value
get_value_of(c, op) ==
    IF c = "Unknown" THEN Null
    ELSE LET b == CASE op = "Eq" -> c = "Equal"
                    [] op = "NotEq" -> c \in {"GreaterThan", "LessThan"}
                    [] op = "Gt" -> c = "GreaterThan"
                    [] op = "Lt" -> c = "LessThan"
                    [] op = "GtEq" -> c \in {"Equal", "GreaterThan"}
                    [] op = "LtEq" -> c \in {"Equal", "LessThan"}
         IN IF b THEN Integer(1) ELSE Integer(0)

\* #[derive(PartialEq)] on Value: structural equality, Null == Null
value_eq(a, b) == a = b

----------------------------------------------------------------------------
(* Table definitions (the values of the @tables tree) and expressions.     *)

\* A TableDefinition is a record
\*   columns     : sequence of [name, type, default]
\*   not_nulls   : sequence of column indices
\*   uniques     : sequence of [columns : sequence of indices, name]
\*   primary_key : sequence of at most one [columns, name]  (an Option)
\*   checks      : sequence of [check : expression, name]

Column(name, type, default) == [name |-> name, type |-> type, default |-> default]

Value(v) == [kind |-> "Value", value |-> v]
Identifier(c) == [kind |-> "Identifier", column |-> c]
BinaryOp(l, class, op, r) ==
    [kind |-> "BinaryOp", left |-> l, class |-> class, op |-> op, right |-> r]

num_columns(def) == Len(def.columns)

column_names(def) == [i \in 1..Len(def.columns) |-> def.columns[i].name]

\* Columns::get_index as an Option: 0 stands for None
get_index(def, name) ==
    IF \E i \in 1..Len(def.columns) : def.columns[i].name = name
    THEN CHOOSE i \in 1..Len(def.columns) : def.columns[i].name = name
    ELSE 0

\* GetData for (&TableHandler, &[Value]): the column is looked up by name
get_data(def, row, column) ==
    LET index == get_index(def, column) IN
    IF index = 0 THEN ValueError ELSE row[index]

\* i64::checked_div as a Value: None, which becomes Null, on a zero divisor
\* and on overflow; the quotient is truncated towards zero
checked_div(l, r) ==
    IF r = 0 \/ (l = IntMin /\ r = -1) THEN Null
    ELSE LET q == (IF l < 0 THEN -l ELSE l) \div (IF r < 0 THEN -r ELSE r)
         IN Integer(IF (l < 0) = (r < 0) THEN q ELSE -q)

\* i64::checked_rem as a Value: the remainder has the sign of the dividend
checked_rem(l, r) ==
    IF r = 0 \/ (l = IntMin /\ r = -1) THEN Null
    ELSE LET m == (IF l < 0 THEN -l ELSE l) % (IF r < 0 THEN -r ELSE r)
         IN Integer(IF l < 0 THEN -m ELSE m)

\* the BinaryOp::Mathematical arm of evaluate_expression: both operands are
\* cast to Integer and then assumed to be integers, which fails on Null.
\* The operands of the model are small: no sum, difference or product
\* leaves the integer range.
mathematical(left, op, right) ==
    LET l == cast(left, "Integer")
        r == cast(right, "Integer")
    IN IF l.t # "Integer" \/ r.t # "Integer" THEN ValueError
       ELSE CASE op = "Add" -> Integer(l.i + r.i)
              [] op = "Subtract" -> Integer(l.i - r.i)
              [] op = "Multiply" -> Integer(l.i * r.i)
              [] op = "Divide" -> checked_div(l.i, r.i)
              [] op = "Modulus" -> checked_rem(l.i, r.i)

RECURSIVE evaluate_expression(_, _, _)
evaluate_expression(e, def, row) ==
    IF e.kind = "Identifier" THEN get_data(def, row, e.column)
    ELSE IF e.kind = "Value" THEN e.value
    ELSE LET left == evaluate_expression(e.left, def, row)
             right == evaluate_expression(e.right, def, row)
         IN IF left = ValueError \/ right = ValueError THEN ValueError
            ELSE IF e.class = "And"
                 THEN truth_value(truth_and(get_truth(left), get_truth(right)))
            ELSE IF e.class = "Or"
                 THEN truth_value(truth_or(get_truth(left), get_truth(right)))
            ELSE IF e.class = "Mathematical"
                 THEN mathematical(left, e.op, right)
            ELSE get_value_of(compare(left, right), e.op)

\* Columns::generate_row followed by Columns::get_data on every column: the
\* row as it is read back from the tree.  Each value is stored after
\* Type::resolve_value, which casts it to the type of its column.
stored_row(def, row) ==
    [i \in 1..Len(def.columns) |-> cast(row[i], def.columns[i].type)]

----------------------------------------------------------------------------
(* Errors: the Err(..) arm of Result<()>, with the name the error carries. *)

Ok == [kind |-> "Ok", name |-> ""]
Error(kind, name) == [kind |-> kind, name |-> name]

\* the last error of a sequence of results
RECURSIVE last_error(_)
last_error(errs) ==
    IF errs = <<>> THEN Ok
    ELSE IF last_error(Tail(errs)) # Ok THEN last_error(Tail(errs))
    ELSE Head(errs)

RECURSIVE first_error(_)
first_error(errs) ==
    IF errs = <<>> THEN Ok
    ELSE IF Head(errs) # Ok THEN Head(errs)
    ELSE first_error(Tail(errs))

\* the keys of a tree in the order sled iterates them
RECURSIVE sorted_keys(_)
sorted_keys(ks) ==
    IF ks = {} THEN <<>>
    ELSE LET m == CHOOSE k \in ks : \A j \in ks : k <= j
         IN <<m>> \o sorted_keys(ks \ {m})

----------------------------------------------------------------------------
(* Trees (sled::Tree): functions from a finite set of row keys to rows.    *)

tree_insert(tree, key, value) ==
    [k \in (DOMAIN tree) \cup {key} |-> IF k = key THEN value ELSE tree[k]]

tree_remove(tree, key) == [k \in (DOMAIN tree) \ {key} |-> tree[k]]

with_tree(tr, t, tree) == [tr EXCEPT ![t] = tree]

\* the last key of the tree in place of the key after it
last_index(tree) ==
    IF DOMAIN tree = {} THEN 0
    ELSE CHOOSE k \in DOMAIN tree : \A j \in DOMAIN tree : j <= k

\* TableHandler::generate_next_index
generate_next_index(tree) ==
    IF DOMAIN tree = {} THEN 0
    ELSE (CHOOSE k \in DOMAIN tree : \A j \in DOMAIN tree : j <= k) + 1

----------------------------------------------------------------------------
(* Foreign key registry (foreign_key.rs).                                  *)

NoAction == "NoAction"
Cascade == "Cascade"
SetNull == "SetNull"
SetDefault == "SetDefault"
ForeignKeyAction == {NoAction, Cascade, SetNull, SetDefault}

\* the schema of the @foreign_keys table, ForeignKeys::open
ForeignKeyColumns ==
    <<"name", "table", "columns", "referred_table", "referred_columns",
      "on_delete", "on_update">>

\* self.handler.column_index(c) where self.handler is the handler of the
\* @foreign_keys table: the name is looked up in ForeignKeyColumns
handler_column_index(c) ==
    IF \E i \in 1..Len(ForeignKeyColumns) : ForeignKeyColumns[i] = c
    THEN CHOOSE i \in 1..Len(ForeignKeyColumns) : ForeignKeyColumns[i] = c
    ELSE 0

\* the first column name of cs that handler_column_index does not resolve
RECURSIVE unresolved_column(_)
unresolved_column(cs) ==
    IF cs = <<>> THEN ""
    ELSE IF handler_column_index(Head(cs)) = 0 THEN Head(cs)
    ELSE unresolved_column(Tail(cs))

\* ForeignKeyChecker::new, or the error the iterator yields in its place
ForeignKeyChecker(name, this_columns, foreign_table, foreign_columns, on_update, on_delete) ==
    [err |-> Ok, name |-> name, this_columns |-> this_columns,
     foreign_handler |-> foreign_table, foreign_columns |-> foreign_columns,
     on_update |-> on_update, on_delete |-> on_delete]

CheckerError(e) ==
    [err |-> e, name |-> "", this_columns |-> <<>>, foreign_handler |-> "",
     foreign_columns |-> <<>>, on_update |-> NoAction, on_delete |-> NoAction]

foreign_key_rows == sorted_keys(DOMAIN foreign_keys)

RECURSIVE select_rows(_, _, _)
select_rows(keys, field, table) ==
    IF keys = <<>> THEN <<>>
    ELSE IF foreign_keys[Head(keys)][field] = table
         THEN <<foreign_keys[Head(keys)]>> \o select_rows(Tail(keys), field, table)
         ELSE select_rows(Tail(keys), field, table)

\* ForeignKeys::table_foreign_keys (check_row calls it child_foreign_keys):
\* the keys declared by `table`, each with the parent table as its
\* foreign_handler
table_foreign_keys(table) ==
    LET rows == select_rows(foreign_key_rows, "table", table) IN
    [n \in 1..Len(rows) |->
        LET row == rows[n] IN
        IF unresolved_column(row.columns) # ""
        THEN CheckerError(Error("NoColumn", unresolved_column(row.columns)))
        ELSE IF row.referred_table \notin DOMAIN tables
        THEN CheckerError(Error("NoTable", row.referred_table))
        ELSE ForeignKeyChecker(row.name,
                 [j \in 1..Len(row.columns) |-> handler_column_index(row.columns[j])],
                 row.referred_table, row.referred_columns, NoAction, NoAction)]

\* ForeignKeys::parent_foreign_keys: the keys that refer to `table`, each
\* with the child table as its foreign_handler
parent_foreign_keys(table) ==
    LET rows == select_rows(foreign_key_rows, "referred_table", table) IN
    [n \in 1..Len(rows) |->
        LET row == rows[n] IN
        IF unresolved_column(row.referred_columns) # ""
        THEN CheckerError(Error("NoColumn", unresolved_column(row.referred_columns)))
        ELSE IF row.table \notin DOMAIN tables
        THEN CheckerError(Error("NoTable", row.table))
        ELSE ForeignKeyChecker(row.name,
                 [j \in 1..Len(row.referred_columns) |->
                     handler_column_index(row.referred_columns[j])],
                 row.table, row.columns, row.on_update, row.on_delete)]

\* ForeignKeyChecker::check_row_contains: this_row is the candidate child
\* row, the foreign handler is the parent table
check_row_contains(tr, checker, this_row) ==
    LET foreign == tables[checker.foreign_handler]
        tree == tr[checker.foreign_handler]
        pairs == 1..Len(checker.this_columns)
    IN
    IF DOMAIN tree = {} THEN Error("ForeignKeyConstraintFailed", checker.name)
    ELSE IF \E j \in pairs : get_index(foreign, checker.foreign_columns[j]) = 0
    THEN Error("NoColumn", "")
    ELSE IF \E j \in pairs : checker.this_columns[j] > Len(this_row)
    THEN Error("Panic", "index out of bounds")
    ELSE IF \E k \in DOMAIN tree : \A j \in pairs :
              value_eq(this_row[checker.this_columns[j]],
                       tree[k][get_index(foreign, checker.foreign_columns[j])])
    THEN Ok
    ELSE Error("ForeignKeyConstraintFailed", checker.name)

----------------------------------------------------------------------------
(* Constraint engine (table_handler.rs).                                   *)

NoRow == -1

\* TableHandler::not_nulls: the NOT NULL columns, then the primary key's
not_nulls(def) ==
    [n \in 1..Len(def.not_nulls) |->
        [index |-> def.not_nulls[n], name |-> def.columns[def.not_nulls[n]].name]]
    \o (IF def.primary_key = <<>> THEN <<>>
        ELSE [n \in 1..Len(def.primary_key[1].columns) |->
                [index |-> def.primary_key[1].columns[n],
                 name |-> def.primary_key[1].name]])

\* TableHandler::uniques: the UNIQUE sets, then the primary key
uniques(def) == def.uniques \o def.primary_key

\* identical with Comparison::is_equal_or_null in place of is_equal
identical_or_null(row, tree_row, unique_set) ==
    \A n \in 1..Len(unique_set) :
        compare(row[unique_set[n]], tree_row[unique_set[n]]) \in {"Equal", "Unknown"}

\* the `identical` flag of check_row for one stored row and one unique set
identical(row, tree_row, unique_set) ==
    \A n \in 1..Len(unique_set) :
        compare(row[unique_set[n]], tree_row[unique_set[n]]) = "Equal"

\* TableHandler::check_row; exclude is the key of the row being updated,
\* or NoRow
check_row(tr, t, row, exclude) ==
    LET def == tables[t]
        check_errors ==
            [n \in 1..Len(def.checks) |->
                LET v == evaluate_expression(def.checks[n].check, def, row) IN
                IF v = ValueError THEN Error("Internal", def.checks[n].name)
                ELSE IF ~is_true(v)
                     THEN Error("CheckConstraintFailed", def.checks[n].name)
                     ELSE Ok]
        nn == not_nulls(def)
        null_errors ==
            [n \in 1..Len(nn) |->
                IF is_null(row[nn[n].index])
                THEN Error("NullConstraintFailed", nn[n].name) ELSE Ok]
        keys == sorted_keys((DOMAIN tr[t]) \ {exclude})
        us == uniques(def)
        unique_errors ==
            [n \in 1..(Len(keys) * Len(us)) |->
                LET tree_row == tr[t][keys[((n - 1) \div Len(us)) + 1]]
                    u == us[((n - 1) % Len(us)) + 1]
                IN IF identical(row, tree_row, u.columns)
                   THEN Error("UniqueConstraintFailed", u.name) ELSE Ok]
        checkers == table_foreign_keys(t)
        foreign_key_errors ==
            [n \in 1..Len(checkers) |->
                IF checkers[n].err # Ok THEN checkers[n].err
                ELSE check_row_contains(tr, checkers[n], row)]
    IN first_error(<<first_error(check_errors), first_error(null_errors),
                     first_error(unique_errors), first_error(foreign_key_errors)>>)

\* the Action of a parent row
ActionDelete == [kind |-> "Delete", new_row |-> <<>>]
ActionUpdate(new_row) == [kind |-> "Update", new_row |-> new_row]

\* the result of an operation on the trees
Done(tr) == [trees |-> tr, err |-> Ok]
Failed(tr, e) == [trees |-> tr, err |-> e]

\* the SetNull | SetDefault arm of check_parent_rows: the child row with
\* its changed columns replaced.  changed is the rest of the peekable
\* iterator over foreign_columns.
RECURSIVE set_columns(_, _, _, _, _)
set_columns(def, foreign_row, changed, action, n) ==
    IF n > Len(def.columns) THEN <<>>
    ELSE IF changed # <<>> /\ Head(changed) = def.columns[n].name
         THEN <<IF action = SetNull THEN Null ELSE def.columns[n].default>>
              \o set_columns(def, foreign_row, Tail(changed), action, n + 1)
         ELSE <<foreign_row[n]>>
              \o set_columns(def, foreign_row, changed, action, n + 1)

RECURSIVE delete_row(_, _, _, _, _)
RECURSIVE update_row(_, _, _, _, _, _)
RECURSIVE check_parent_rows(_, _, _, _, _, _, _)
RECURSIVE parent_keys_loop(_, _, _, _, _, _)
RECURSIVE next_key(_, _, _, _, _, _)
RECURSIVE next_foreign_row(_, _, _, _, _, _, _)
RECURSIVE remove_row(_, _, _)
RECURSIVE update_get_left_right(_, _, _, _, _, _, _)
RECURSIVE insert_row(_, _, _, _)
RECURSIVE insert_checked(_, _, _, _)

\* the `for key in parent_foreign_keys(..)` loop of delete_row and of
\* update_get_left_right
parent_keys_loop(tr, checkers, row, t, action, depth) ==
    IF checkers = <<>> THEN Done(tr)
    ELSE IF Head(checkers).err # Ok THEN Failed(tr, Head(checkers).err)
    ELSE next_key(check_parent_rows(tr, Head(checkers), row, t, action, NoRow, depth),
                  Tail(checkers), row, t, action, depth)

\* the `?` on check_parent_rows and the next turn of the loop
next_key(r, checkers, row, t, action, depth) ==
    IF r.err # Ok THEN r
    ELSE parent_keys_loop(r.trees, checkers, row, t, action, depth)

\* ForeignKeyChecker::check_parent_rows: this_row is the parent row of
\* table t, the foreign handler is the child table.  The child tree is
\* iterated lazily: last is the key visited last.
check_parent_rows(tr, checker, this_row, t, action, last, depth) ==
    LET child == checker.foreign_handler
        def == tables[child]
        rest == {k \in DOMAIN tr[child] : k > last}
    IN
    IF rest = {} THEN Done(tr)
    ELSE
    LET key == CHOOSE k \in rest : \A j \in rest : k <= j
        foreign_row == tr[child][key]
        pairs == 1..Len(checker.this_columns)
        foreign_key_action ==
            IF action.kind = "Delete" THEN checker.on_delete ELSE checker.on_update
    IN
    IF \E j \in pairs : get_index(def, checker.foreign_columns[j]) = 0
    THEN Failed(tr, Error("NoColumn", ""))
    ELSE IF \E j \in pairs : checker.this_columns[j] > Len(this_row)
    THEN Failed(tr, Error("Internal", "Could not get entry for index"))
    ELSE IF \E j \in pairs :
              ~value_eq(this_row[checker.this_columns[j]],
                        foreign_row[get_index(def, checker.foreign_columns[j])])
    THEN check_parent_rows(tr, checker, this_row, t, action, key, depth)
    ELSE IF foreign_key_action = NoAction
    THEN Failed(tr, Error("ForeignKeyConstraintFailed", checker.name))
    ELSE IF depth >= MaxDepth
    THEN Failed(tr, Error("StackOverflow", ""))
    ELSE next_foreign_row(
            IF foreign_key_action \in {SetNull, SetDefault}
            THEN update_row(tr, child, key, foreign_row,
                            set_columns(def, foreign_row, checker.foreign_columns,
                                        foreign_key_action, 1),
                            depth + 1)
            ELSE IF action.kind = "Delete"
            THEN delete_row(tr, child, key, foreign_row, depth + 1)
            ELSE Done(tr),   \* Cascade on update: new_row is built and dropped
            checker, this_row, t, action, key, depth)

\* the `?` on the referential action and the next child row of the loop
next_foreign_row(r, checker, this_row, t, action, key, depth) ==
    IF r.err # Ok THEN r
    ELSE check_parent_rows(r.trees, checker, this_row, t, action, key, depth)

\* TableHandler::delete_row
delete_row(tr, t, key, row, depth) ==
    remove_row(parent_keys_loop(tr, parent_foreign_keys(t), row, t, ActionDelete, depth),
               t, key)

\* self.tree.remove(&row.left), reached when no parent-key handler failed
remove_row(r, t, key) ==
    IF r.err # Ok THEN r
    ELSE Done(with_tree(r.trees, t, tree_remove(r.trees[t], key)))

\* TableHandler::update_row with update_get_left_right
update_row(tr, t, key, row, new_row, depth) ==
    update_get_left_right(check_row(tr, t, new_row, key), tr, t, key, row, new_row, depth)

\* update_get_left_right after its check_row returned e
update_get_left_right(e, tr, t, key, row, new_row, depth) ==
    IF e # Ok THEN Failed(tr, e)
    ELSE insert_row(parent_keys_loop(tr, parent_foreign_keys(t), row, t,
                                     ActionUpdate(new_row), depth),
                    t, key, new_row)

\* generate_row and self.tree.insert(left, right), reached when no
\* parent-key handler failed
insert_row(r, t, key, new_row) ==
    IF r.err # Ok THEN r
    ELSE IF Len(new_row) # num_columns(tables[t])
    THEN Failed(r.trees, Error("WrongNumColumns", ""))
    ELSE Done(with_tree(r.trees, t,
                tree_insert(r.trees[t], key, stored_row(tables[t], new_row))))

\* TableHandler::insert_values
insert_values(tr, t, values) ==
    insert_checked(check_row(tr, t, values, NoRow), tr, t, values)

\* insert_values after its check_row returned e
insert_checked(e, tr, t, values) ==
    IF e # Ok THEN Failed(tr, e)
    ELSE insert_row(Done(tr), t, generate_next_index(tr[t]), values)

----------------------------------------------------------------------------
(* Statement executor (interpreter.rs).                                    *)

\* resolve_expression against one table: every identifier names a column
RECURSIVE resolves(_, _)
resolves(e, def) ==
    IF e.kind = "Identifier" THEN get_index(def, e.column) # 0
    ELSE IF e.kind = "Value" THEN TRUE
    ELSE resolves(e.left, def) /\ resolves(e.right, def)

\* the closure of TableIter::filter_where: a row is kept when the predicate
\* is truthy, and also when evaluating it fails
filter_where(predicate, def, row) ==
    LET evaluated == evaluate_expression(predicate, def, row) IN
    IF evaluated = ValueError THEN TRUE ELSE is_true(evaluated)

\* the `for row in values.take_rows()` loop of execute_insert
RECURSIVE insert_loop(_, _, _)
RECURSIVE next_values(_, _, _)
insert_loop(tr, t, rows) ==
    IF rows = <<>> THEN Done(tr)
    ELSE next_values(insert_values(tr, t, Head(rows)), t, Tail(rows))

\* the `?` on insert_values and the next row of the loop
next_values(r, t, rows) ==
    IF r.err # Ok THEN r ELSE insert_loop(r.trees, t, rows)

\* Interpreter::execute_insert for INSERT INTO t VALUES rows
execute_insert(tr, t, rows) ==
    IF t \notin DOMAIN tables THEN Failed(tr, Error("NoTable", t))
    ELSE IF \E n \in 1..Len(rows) : Len(rows[n]) # Len(rows[1])
    THEN Failed(tr, Error("WrongNumColumns", ""))
    ELSE IF Len(rows[1]) # num_columns(tables[t])
    THEN Failed(tr, Error("WrongNumColumns", ""))
    ELSE insert_loop(tr, t, rows)

\* the `for row in iter.filter_where(..)` loop of execute_delete; the tree
\* is iterated lazily, last is the key visited last
RECURSIVE delete_loop(_, _, _, _)
RECURSIVE next_delete(_, _, _, _)
delete_loop(tr, t, predicate, last) ==
    LET rest == {k \in DOMAIN tr[t] : k > last} IN
    IF rest = {} THEN Done(tr)
    ELSE LET key == CHOOSE k \in rest : \A j \in rest : k <= j
             row == tr[t][key]
         IN IF ~filter_where(predicate, tables[t], row)
            THEN delete_loop(tr, t, predicate, key)
            ELSE next_delete(delete_row(tr, t, key, row, 0), t, predicate, key)

\* the `?` on delete_row and the next row of the loop
next_delete(r, t, predicate, key) ==
    IF r.err # Ok THEN r ELSE delete_loop(r.trees, t, predicate, key)

\* Interpreter::execute_delete
execute_delete(tr, t, predicate) ==
    IF t \notin DOMAIN tables THEN Failed(tr, Error("NoTable", t))
    ELSE IF ~resolves(predicate, tables[t]) THEN Failed(tr, Error("NoColumn", ""))
    ELSE delete_loop(tr, t, predicate, NoRow)

\* TableRowUpdater::add_update
add_update(new_row, row, index, new_value) ==
    new_row \o [n \in 1..(index - 1 - Len(new_row)) |-> row[Len(new_row) + n]]
            \o <<new_value>>

\* TableRowUpdater::finalise
finalise(new_row, row) ==
    new_row \o [n \in 1..(Len(row) - Len(new_row)) |-> row[Len(new_row) + n]]

\* an assignment loop that evaluates each expression on the row as the
\* assignments before it left it
RECURSIVE updated_in_turn(_, _, _, _)
updated_in_turn(new_row, assignments, def, row) ==
    IF assignments = <<>> THEN row
    ELSE LET new_value == evaluate_expression(Head(assignments).value, def, row) IN
         IF new_value = ValueError THEN <<>>
         ELSE updated_in_turn(new_row, Tail(assignments), def,
                              [row EXCEPT ![Head(assignments).index] = new_value])

\* the `for (column, new_value_expression) in &assignments` loop; the
\* result is <<>> when an expression fails to evaluate
RECURSIVE updated_row(_, _, _, _)
updated_row(new_row, assignments, def, row) ==
    IF assignments = <<>> THEN finalise(new_row, row)
    ELSE LET new_value == evaluate_expression(Head(assignments).value, def, row) IN
         IF new_value = ValueError THEN <<>>
         ELSE updated_row(add_update(new_row, row, Head(assignments).index, new_value),
                          Tail(assignments), def, row)

\* assignments.sort_unstable_by_key(|(i, _)| *i): assignments to the same
\* column come in an order the sort does not specify
RECURSIVE sort_by_index(_)
sort_by_index(assignments) ==
    IF assignments = {} THEN <<>>
    ELSE LET m == CHOOSE a \in assignments : \A b \in assignments : a.index <= b.index
         IN <<m>> \o sort_by_index(assignments \ {m})

\* the `for row in iter.filter_where(..)` loop of execute_update
RECURSIVE update_loop(_, _, _, _, _)
RECURSIVE next_update(_, _, _, _, _)
update_loop(tr, t, assignments, filter, last) ==
    LET rest == {k \in DOMAIN tr[t] : k > last} IN
    IF rest = {} THEN Done(tr)
    ELSE LET key == CHOOSE k \in rest : \A j \in rest : k <= j
             row == tr[t][key]
         IN IF ~filter_where(filter, tables[t], row)
            THEN update_loop(tr, t, assignments, filter, key)
            ELSE IF updated_row(<<>>, assignments, tables[t], row) = <<>>
                 THEN Failed(tr, Error("Internal", ""))
                 ELSE next_update(
                        update_row(tr, t, key, row,
                                   updated_row(<<>>, assignments, tables[t], row), 0),
                        t, assignments, filter, key)

\* the `?` on update_row and the next row of the loop
next_update(r, t, assignments, filter, key) ==
    IF r.err # Ok THEN r ELSE update_loop(r.trees, t, assignments, filter, key)

\* Interpreter::execute_update for UPDATE t SET column = value, .. WHERE
\* filter; assignments is a set of [column, value] on distinct columns
execute_update(tr, t, assignments, filter) ==
    IF t \notin DOMAIN tables THEN Failed(tr, Error("NoTable", t))
    ELSE IF \E a \in assignments :
              get_index(tables[t], a.column) = 0 \/ ~resolves(a.value, tables[t])
    THEN Failed(tr, Error("NoColumn", ""))
    ELSE IF ~resolves(filter, tables[t]) THEN Failed(tr, Error("NoColumn", ""))
    ELSE update_loop(tr, t,
            sort_by_index({[index |-> get_index(tables[t], a.column), value |-> a.value]
                             : a \in assignments}),
            filter, NoRow)

----------------------------------------------------------------------------
(* Catalogs: the tables and foreign keys a sequence of CREATE TABLE        *)
(* statements leaves in @tables and @foreign_keys.                         *)

TableDefinition(columns, nn, us, pk, checks) ==
    [columns |-> columns, not_nulls |-> nn, uniques |-> us,
     primary_key |-> pk, checks |-> checks]

ForeignKey(name, table, columns, referred_table, referred_columns, on_delete, on_update) ==
    [name |-> name, table |-> table, columns |-> columns,
     referred_table |-> referred_table, referred_columns |-> referred_columns,
     on_delete |-> on_delete, on_update |-> on_update]

Constraint(columns, name) == [columns |-> columns, name |-> name]

a == <<97>>
b == <<98>>

\* CREATE TABLE parent (name string UNIQUE);
\* CREATE TABLE child (name string DEFAULT 'b', CONSTRAINT fkey
\*   FOREIGN KEY (name) REFERENCES parent(name) ON DELETE od ON UPDATE ou)
ParentChild(od, ou) ==
    [tables |->
        [t \in {"parent", "child"} |->
            IF t = "parent"
            THEN TableDefinition(<<Column("name", "String", Null)>>, <<>>,
                                 <<Constraint(<<1>>, "name")>>, <<>>, <<>>)
            ELSE TableDefinition(<<Column("name", "String", String(b))>>, <<>>,
                                 <<>>, <<>>, <<>>)],
     foreign_keys |->
        [k \in {0} |-> ForeignKey("fkey", "child", <<"name">>, "parent", <<"name">>,
                                  od, ou)]]

\* CREATE TABLE parent (id int, name string UNIQUE);
\* CREATE TABLE child (name string DEFAULT 'b', CONSTRAINT fkey
\*   FOREIGN KEY (name) REFERENCES parent(name) ON DELETE od)
SecondColumn(od) ==
    [tables |->
        [t \in {"parent", "child"} |->
            IF t = "parent"
            THEN TableDefinition(<<Column("id", "Integer", Null),
                                   Column("name", "String", Null)>>, <<>>,
                                 <<Constraint(<<2>>, "name")>>, <<>>, <<>>)
            ELSE TableDefinition(<<Column("name", "String", String(b))>>, <<>>,
                                 <<>>, <<>>, <<>>)],
     foreign_keys |->
        [k \in {0} |-> ForeignKey("fkey", "child", <<"name">>, "parent", <<"name">>,
                                  od, NoAction)]]

\* CREATE TABLE parent (n string PRIMARY KEY);
\* CREATE TABLE child (n string, FOREIGN KEY (n) REFERENCES parent(n)
\*   ON DELETE CASCADE)
OtherName ==
    [tables |->
        [t \in {"parent", "child"} |->
            IF t = "parent"
            THEN TableDefinition(<<Column("n", "String", Null)>>, <<>>, <<>>,
                                 <<Constraint(<<1>>, "n")>>, <<>>)
            ELSE TableDefinition(<<Column("n", "String", Null)>>, <<>>,
                                 <<>>, <<>>, <<>>)],
     foreign_keys |->
        [k \in {0} |-> ForeignKey("__fkey0", "child", <<"n">>, "parent", <<"n">>,
                                  Cascade, NoAction)]]

\* CREATE TABLE parent (name string PRIMARY KEY);
\* CREATE TABLE child (name string DEFAULT 'b', age int,
\*   CONSTRAINT fkey FOREIGN KEY (name) REFERENCES parent(name) ON DELETE od,
\*   CONSTRAINT older CHECK (age > 1 OR name = 'a'))
CheckedChild(od) ==
    [tables |->
        [t \in {"parent", "child"} |->
            IF t = "parent"
            THEN TableDefinition(<<Column("name", "String", Null)>>, <<>>,
                                 <<>>, <<Constraint(<<1>>, "name")>>, <<>>)
            ELSE TableDefinition(<<Column("name", "String", String(b)),
                                   Column("age", "Integer", Null)>>, <<>>,
                                 <<>>, <<>>,
                     <<[check |->
                          BinaryOp(BinaryOp(Identifier("age"), "Comparison", "Gt",
                                            Value(Integer(1))),
                                   "Or", "",
                                   BinaryOp(Identifier("name"), "Comparison", "Eq",
                                            Value(String(a)))),
                        name |-> "older"]>>)],
     foreign_keys |->
        [k \in {0} |-> ForeignKey("fkey", "child", <<"name">>, "parent", <<"name">>,
                                  od, NoAction)]]

\* CREATE TABLE t (code string PRIMARY KEY, CONSTRAINT two CHECK (code >= '2'))
\* or, when pk is FALSE,
\* CREATE TABLE t (code string NOT NULL UNIQUE, CONSTRAINT two CHECK (code >= '2'))
Constrained(pk) ==
    [tables |->
        [t \in {"t"} |->
            TableDefinition(<<Column("code", "String", Null)>>,
                            IF pk THEN <<>> ELSE <<1>>,
                            IF pk THEN <<>> ELSE <<Constraint(<<1>>, "code")>>,
                            IF pk THEN <<Constraint(<<1>>, "code")>> ELSE <<>>,
                            <<[check |-> BinaryOp(Identifier("code"), "Comparison",
                                                  "GtEq", Value(String(<<50>>))),
                               name |-> "two"]>>)],
     foreign_keys |-> [k \in {} |-> <<>>]]

\* CREATE TABLE people (name string, age int)
People ==
    [tables |->
        [t \in {"people"} |->
            TableDefinition(<<Column("name", "String", Null),
                              Column("age", "Integer", Null)>>, <<>>,
                            <<>>, <<>>, <<>>)],
     foreign_keys |-> [k \in {} |-> <<>>]]

Catalogs ==
    {ParentChild(x, x) : x \in ForeignKeyAction}
    \cup {SecondColumn(od) : od \in {NoAction, Cascade, SetNull}}
    \cup {CheckedChild(SetDefault), OtherName, Constrained(TRUE), Constrained(FALSE)}

\* the literals the statements of the model are built from; the columns of
\* table t also receive values of the other type
InputValues(t, n) ==
    IF t = "t" THEN {Null, String(<<49>>), String(<<51>>), Integer(10)}
    ELSE IF t = "people"
    THEN (IF n = 1 THEN {String(a), String(b)} ELSE {Null, Integer(1), Integer(5)})
    ELSE IF tables[t].columns[n].type = "String"
    THEN {Null, String(a), String(b)}
    ELSE IF tables[t].columns[n].name = "id" THEN {Integer(1)}
    ELSE {Integer(1), Integer(2)}

\* the rows of a VALUES list for table t
RECURSIVE rows_from(_, _)
rows_from(t, n) ==
    IF n > num_columns(tables[t]) THEN {<<>>}
    ELSE {<<v>> \o rest : v \in InputValues(t, n), rest \in rows_from(t, n + 1)}

InputRows(t) == rows_from(t, 1)

ValuesLists(t) ==
    UNION {[1..n -> InputRows(t)] : n \in 1..MaxStmtRows}

\* the literal a WHERE clause compares a column of t with
WhereValue(t, n) ==
    IF t = "t" THEN String(<<51>>)
    ELSE IF tables[t].columns[n].type = "String" THEN String(a)
    ELSE Integer(1)

\* WHERE age + 1 > 2
Older ==
    BinaryOp(BinaryOp(Identifier("age"), "Mathematical", "Add", Value(Integer(1))),
             "Comparison", "Gt", Value(Integer(2)))

\* WHERE clauses: none (the executor substitutes the literal 1), or
\* column = literal
Predicates(t) ==
    {Value(Integer(1))}
    \cup {BinaryOp(Identifier(tables[t].columns[n].name), "Comparison", "Eq",
                   Value(WhereValue(t, n))) : n \in 1..num_columns(tables[t])}
    \cup (IF t = "people" THEN {Older} ELSE {})

\* SET name = 'a', name = 'b'
Twice ==
    {[column |-> "name", value |-> Value(String(a))],
     [column |-> "name", value |-> Value(String(b))]}

\* SET lists: one column set to a literal, or one column set twice
Assignments(t) ==
    {{[column |-> tables[t].columns[n].name, value |-> Value(v)]} :
        <<n, v>> \in {<<n, v>> \in (1..num_columns(tables[t])) \X
                         UNION {InputValues(t, m) : m \in 1..num_columns(tables[t])} :
                      v \in InputValues(t, n)}}
    \cup (IF t = "people" THEN {Twice} ELSE {})

\* the keys of the rows of t that a WHERE clause selects
selected(tr, t, predicate) ==
    {k \in DOMAIN tr[t] : filter_where(predicate, tables[t], tr[t][k])}

EmptyTree == [k \in {} |-> <<>>]

Init ==
    /\ \E c \in Catalogs : tables = c.tables /\ foreign_keys = c.foreign_keys
    /\ trees = [t \in DOMAIN tables |-> EmptyTree]
    /\ result = [op |-> "None", table |-> "", keys |-> {}, err |-> Ok]

\* Database::execute_query with one INSERT statement
Insert ==
    \E t \in DOMAIN tables : \E rows \in ValuesLists(t) :
        /\ generate_next_index(trees[t]) + Len(rows) - 1 <= MaxKey
        /\ LET r == execute_insert(trees, t, rows) IN
           /\ trees' = r.trees
           /\ result' = [op |-> "Insert", table |-> t, keys |-> {}, err |-> r.err]
        /\ UNCHANGED <<tables, foreign_keys>>

\* Database::execute_query with one DELETE statement
Delete ==
    \E t \in DOMAIN tables : \E predicate \in Predicates(t) :
        /\ LET r == execute_delete(trees, t, predicate) IN
           /\ trees' = r.trees
           /\ result' = [op |-> "Delete", table |-> t,
                         keys |-> selected(trees, t, predicate), err |-> r.err]
        /\ UNCHANGED <<tables, foreign_keys>>

\* Database::execute_query with one UPDATE statement
Update ==
    \E t \in DOMAIN tables : \E assignments \in Assignments(t) :
      \E filter \in Predicates(t) :
        /\ LET r == execute_update(trees, t, assignments, filter) IN
           /\ trees' = r.trees
           /\ result' = [op |-> "Update", table |-> t,
                         keys |-> selected(trees, t, filter), err |-> r.err]
        /\ UNCHANGED <<tables, foreign_keys>>

Next == Insert \/ Delete \/ Update

Spec == Init /\ [][Next]_vars

----------------------------------------------------------------------------
(* What the specification says of a stored row, stated on the tables'      *)
(* own schemas.                                                            *)

Range(f) == {f[x] : x \in DOMAIN f}

\* row satisfies the NOT NULL, PRIMARY KEY and CHECK constraints of def
RowValid(def, row) ==
    /\ \A n \in 1..Len(def.not_nulls) : ~is_null(row[def.not_nulls[n]])
    /\ \A p \in Range(def.primary_key) : \A n \in 1..Len(p.columns) :
          ~is_null(row[p.columns[n]])
    /\ \A c \in Range(def.checks) :
          is_true(evaluate_expression(c.check, def, row))

\* two rows are element-wise equal on a column set
EqualOn(columns, row, other) ==
    \A n \in 1..Len(columns) : compare(row[columns[n]], other[columns[n]]) = "Equal"

\* C1: every row stored in a table satisfies the table's declared
\* constraints: each NOT NULL and PRIMARY KEY column is non-Null, each CHECK
\* evaluates truthy on the stored row, and no two stored rows are
\* element-wise equal on the columns of a UNIQUE or PRIMARY KEY set.
C1_StoredRowsSatisfyConstraints ==
    \A t \in DOMAIN tables :
        /\ \A k \in DOMAIN trees[t] : RowValid(tables[t], trees[t][k])
        /\ \A u \in Range(tables[t].uniques) \cup Range(tables[t].primary_key) :
             \A k \in DOMAIN trees[t] : \A j \in DOMAIN trees[t] :
                k # j => ~EqualOn(u.columns, trees[t][k], trees[t][j])

\* the values a row holds in the named columns of its own table
Projection(t, columns, row) ==
    [n \in 1..Len(columns) |-> row[get_index(tables[t], columns[n])]]

NoNull(values) == \A n \in 1..Len(values) : ~is_null(values[n])

\* child values reference parent values: non-Null and pairwise equal
References(child_values, parent_values) ==
    /\ NoNull(child_values)
    /\ \A n \in 1..Len(child_values) :
          compare(child_values[n], parent_values[n]) = "Equal"

\* the row of fk's child table references the row of fk's parent table
RowReferences(fk, child_row, parent_row) ==
    References(Projection(fk.table, fk.columns, child_row),
               Projection(fk.referred_table, fk.referred_columns, parent_row))

\* foreign keys whose column names all exist in both tables
DeclaredKeys ==
    {fk \in Range(foreign_keys) :
        /\ \A n \in 1..Len(fk.columns) :
              get_index(tables[fk.table], fk.columns[n]) # 0
        /\ \A n \in 1..Len(fk.referred_columns) :
              get_index(tables[fk.referred_table], fk.referred_columns[n]) # 0}

ConstraintErrors ==
    {"NullConstraintFailed", "UniqueConstraintFailed", "CheckConstraintFailed",
     "ForeignKeyConstraintFailed"}

\* parent rows of fk that the statement removed
Removed(fk) == DOMAIN trees[fk.referred_table] \ DOMAIN trees'[fk.referred_table]

\* C2: for every foreign key, every stored child row whose foreign-key
\* columns are all non-Null has a stored parent row whose referred columns
\* hold the same values.
C2_ReferentialIntegrity ==
    \A fk \in DeclaredKeys :
        \A k \in DOMAIN trees[fk.table] :
            NoNull(Projection(fk.table, fk.columns, trees[fk.table][k])) =>
                \E p \in DOMAIN trees[fk.referred_table] :
                    RowReferences(fk, trees[fk.table][k], trees[fk.referred_table][p])

\* C3: an INSERT that returns a NOT NULL, UNIQUE, PRIMARY KEY or CHECK
\* constraint error names a constraint or column of the table and leaves
\* the table's (key, row) pairs exactly as they were.
C3_RejectedInsertLeavesTable ==
    [][(/\ result'.op = "Insert"
        /\ result'.err.kind \in ConstraintErrors \ {"ForeignKeyConstraintFailed"})
       => /\ result'.err.name \in
                {c.name : c \in Range(tables[result'.table].columns)}
                \cup {c.name : c \in Range(tables[result'.table].uniques)}
                \cup {c.name : c \in Range(tables[result'.table].primary_key)}
                \cup {c.name : c \in Range(tables[result'.table].checks)}
          /\ trees'[result'.table] = trees[result'.table]]_vars

\* C4: a multi-row INSERT or UPDATE is atomic: when the constraint check
\* fails for any one row, none of the statement's writes is stored and the
\* table is exactly as before.
C4_StatementAtomic ==
    [][(/\ result'.op \in {"Insert", "Update"}
        /\ result'.err.kind \in ConstraintErrors)
       => trees'[result'.table] = trees[result'.table]]_vars

\* C5: after a successful DELETE on the parent of an ON DELETE CASCADE
\* foreign key, no child row has foreign-key columns equal to the referred
\* columns of a deleted parent row.
C5_CascadeDeleteRemovesChildren ==
    [][(result'.op = "Delete" /\ result'.err = Ok)
       => \A fk \in DeclaredKeys :
            (fk.referred_table = result'.table /\ fk.on_delete = Cascade) =>
                \A p \in Removed(fk) : \A k \in DOMAIN trees'[fk.table] :
                    ~RowReferences(fk, trees'[fk.table][k],
                                   trees[fk.referred_table][p])]_vars

\* C6: a DELETE selecting a parent row that a child row references through
\* a NO ACTION foreign key fails with ForeignKeyConstraintFailed naming the
\* key, and leaves the parent and the child table unchanged.
C6_NoActionDeleteAborts ==
    [][result'.op = "Delete"
       => \A fk \in DeclaredKeys :
            (/\ fk.referred_table = result'.table
             /\ fk.on_delete = NoAction
             /\ \E p \in result'.keys : \E k \in DOMAIN trees[fk.table] :
                    RowReferences(fk, trees[fk.table][k],
                                  trees[fk.referred_table][p]))
            => /\ result'.err = Error("ForeignKeyConstraintFailed", fk.name)
               /\ trees'[fk.referred_table] = trees[fk.referred_table]
               /\ trees'[fk.table] = trees[fk.table]]_vars

\* C7: a partial cascade never persists.  When a referential action
\* triggered by the DELETE of a parent row fails, the DELETE is rejected
\* entirely: the parent row is still stored and no row of any referencing
\* table has been changed or removed.
C7_FailedDeleteLeavesNoTrace ==
    [][(/\ result'.op = "Delete"
        /\ Cardinality(result'.keys) = 1
        /\ result'.err.kind \in ConstraintErrors)
       => /\ result'.keys \subseteq DOMAIN trees'[result'.table]
          /\ trees' = trees]_vars

\* C8: after a successful DELETE on the parent of an ON DELETE SET NULL or
\* SET DEFAULT foreign key, every child row that referenced a deleted parent
\* row is stored under the same key with its foreign-key columns Null, or
\* the columns' defaults, and its other columns unchanged; the parent rows
\* are gone.
C8_SetNullSetDefaultRewritesChildren ==
    [][(result'.op = "Delete" /\ result'.err = Ok)
       => \A fk \in DeclaredKeys :
            (fk.referred_table = result'.table
                /\ fk.on_delete \in {SetNull, SetDefault}) =>
              /\ result'.keys \cap DOMAIN trees'[fk.referred_table] = {}
              /\ \A p \in Removed(fk) : \A k \in DOMAIN trees[fk.table] :
                    RowReferences(fk, trees[fk.table][k],
                                  trees[fk.referred_table][p]) =>
                      /\ k \in DOMAIN trees'[fk.table]
                      /\ trees'[fk.table][k] =
                            [n \in 1..num_columns(tables[fk.table]) |->
                                IF \E c \in Range(fk.columns) :
                                      get_index(tables[fk.table], c) = n
                                THEN IF fk.on_delete = SetNull THEN Null
                                     ELSE tables[fk.table].columns[n].default
                                ELSE trees[fk.table][k][n]]]_vars

\* C9: after a successful UPDATE of a parent row under ON UPDATE CASCADE,
\* every child row that referenced the row's old referred values holds the
\* new values of the referred columns in its foreign-key columns.
C9_CascadeUpdateFollowsParent ==
    [][(result'.op = "Update" /\ result'.err = Ok)
       => \A fk \in DeclaredKeys :
            (fk.referred_table = result'.table /\ fk.on_update = Cascade) =>
                \A p \in result'.keys : \A k \in DOMAIN trees[fk.table] :
                    RowReferences(fk, trees[fk.table][k],
                                  trees[fk.referred_table][p]) =>
                      /\ k \in DOMAIN trees'[fk.table]
                      /\ Projection(fk.table, fk.columns, trees'[fk.table][k])
                            = Projection(fk.referred_table, fk.referred_columns,
                                         trees'[fk.referred_table][p])]_vars

\* C10: a child row whose foreign-key column is Null satisfies the foreign
\* key whatever the parent table holds: the constraint check of such a row
\* never fails with ForeignKeyConstraintFailed.
C10_NullForeignKeyAccepted ==
    \A fk \in DeclaredKeys : \A row \in InputRows(fk.table) :
        (\E n \in 1..Len(fk.columns) :
            is_null(Projection(fk.table, fk.columns, row)[n]))
        => check_row(trees, fk.table, row, NoRow).kind
              # "ForeignKeyConstraintFailed"

----------------------------------------------------------------------------
(* A user table named @foreign_keys.  The dialect accepts '@' in          *)
(* identifiers and execute_create_table only looks the name up in         *)
(* @tables, so CREATE TABLE @foreign_keys (..) with the seven column types *)
(* of the registry creates a user table over the registry's own tree, and *)
(* INSERT INTO @foreign_keys writes foreign key records that no           *)
(* CREATE TABLE validated.                                                *)

MaxForeignKeys == 1   \* foreign key records written through the user table

\* CREATE TABLE node (name string UNIQUE);
\* CREATE TABLE @foreign_keys (name string, child string, columns string,
\*   referred_table string, referred_columns string, on_delete int,
\*   on_update int)
Node ==
    [tables |->
        [t \in {"node"} |->
            TableDefinition(<<Column("name", "String", Null)>>, <<>>,
                            <<Constraint(<<1>>, "name")>>, <<>>, <<>>)],
     foreign_keys |-> [k \in {} |-> <<>>]]

\* the records INSERT INTO @foreign_keys VALUES
\*   ('loop', 'node', 'name', 'node', 'name', on_delete, on_update) stores
ForeignKeyRows ==
    {ForeignKey("loop", "node", <<"name">>, "node", <<"name">>, od, ou) :
        od \in ForeignKeyAction, ou \in {NoAction, SetNull}}

NodeInit ==
    /\ tables = Node.tables
    /\ foreign_keys = Node.foreign_keys
    /\ trees = [t \in DOMAIN tables |-> EmptyTree]
    /\ result = [op |-> "None", table |-> "", keys |-> {}, err |-> Ok]

\* Database::execute_query with one INSERT INTO @foreign_keys statement:
\* the table declares no constraint, so the row is stored under the next
\* index of the tree
InsertForeignKey ==
    \E row \in ForeignKeyRows :
        /\ Cardinality(DOMAIN foreign_keys) < MaxForeignKeys
        /\ foreign_keys' = tree_insert(foreign_keys,
                                       generate_next_index(foreign_keys), row)
        /\ result' = [op |-> "Insert", table |-> "@foreign_keys", keys |-> {},
                      err |-> Ok]
        /\ UNCHANGED <<tables, trees>>

NodeNext == Insert \/ Delete \/ Update \/ InsertForeignKey

NodeSpec == NodeInit /\ [][NodeNext]_vars

\* C11: every DELETE and UPDATE statement terminates, also when a table
\* references itself: the nesting of referential actions never runs away,
\* a chain that comes back to a row it already visited being cut off
\* instead of recursing further.
C11_CascadeTerminates ==
    [][result'.op \in {"Delete", "Update"}
       => result'.err # Error("StackOverflow", "")]_vars

----------------------------------------------------------------------------
(* DELETE and UPDATE on a table without constraints.                      *)

PeopleInit ==
    /\ tables = People.tables
    /\ foreign_keys = People.foreign_keys
    /\ trees = [t \in DOMAIN tables |-> EmptyTree]
    /\ result = [op |-> "None", table |-> "", keys |-> {}, err |-> Ok]

PeopleSpec == PeopleInit /\ [][Next]_vars

\* the keys of the rows of t on which a WHERE clause has a value and the
\* value is truthy
Truthy(tr, t, predicate) ==
    {k \in DOMAIN tr[t] :
        LET v == evaluate_expression(predicate, tables[t], tr[t][k]) IN
        v # ValueError /\ is_true(v)}

\* C12: a successful DELETE FROM t WHERE p removes exactly the rows of t on
\* which p is truthy; every other row is still stored under the same key
\* with the same contents, and without WHERE every row is removed.
C12_DeleteRemovesTruthyRows ==
    [][(result'.op = "Delete" /\ result'.err = Ok)
       => \A p \in Predicates(result'.table) :
            (/\ execute_delete(trees, result'.table, p) = Done(trees')
             /\ selected(trees, result'.table, p) = result'.keys)
            => \A k \in DOMAIN trees[result'.table] :
                 IF k \in Truthy(trees, result'.table, p)
                 THEN k \notin DOMAIN trees'[result'.table]
                 ELSE /\ k \in DOMAIN trees'[result'.table]
                      /\ trees'[result'.table][k] = trees[result'.table][k]]_vars

\* the indices of the columns a SET list names
SetColumns(t, assignments) == {get_index(tables[t], x.column) : x \in assignments}

\* C13: a successful UPDATE changes only the columns named in its SET list,
\* and only in the rows its WHERE clause selected; every other column of a
\* selected row, every other row and every row key is unchanged, so the
\* number of rows is unchanged.
C13_UpdateChangesSetColumnsOnly ==
    [][(result'.op = "Update" /\ result'.err = Ok)
       => \A assignments \in Assignments(result'.table) :
          \A filter \in Predicates(result'.table) :
            (/\ execute_update(trees, result'.table, assignments, filter)
                    = Done(trees')
             /\ selected(trees, result'.table, filter) = result'.keys)
            => /\ DOMAIN trees'[result'.table] = DOMAIN trees[result'.table]
               /\ \A k \in DOMAIN trees[result'.table] :
                  \A n \in 1..num_columns(tables[result'.table]) :
                    (k \notin result'.keys
                        \/ n \notin SetColumns(result'.table, assignments))
                    => trees'[result'.table][k][n] = trees[result'.table][k][n]]_vars

----------------------------------------------------------------------------
(* Joins (join_handler.rs).  A TableJoins value is the FROM clause as     *)
(* parsed; Join::new resolves it into a Join, iter_inner makes the        *)
(* iterator, whose state is the position of every table iterator and the  *)
(* flags of every join, and advance moves it to the next row of the       *)
(* buffer, which holds one TableRow per table of the tree.                *)

TableJoin(t) == [kind |-> "Table", table |-> t]

On(e) == [kind |-> "On", expression |-> e]
Natural == [kind |-> "Natural"]
NoConstraint == [kind |-> "None"]

TableJoins(left, operator, right, constraint) ==
    [kind |-> "Join", left |-> left, right |-> right, operator |-> operator,
     constraint |-> constraint]

\* ResolvedColumn::new
ResolvedColumn(table, column) == <<table, column>>

\* Join::wildcard_column_names
RECURSIVE wildcard_column_names(_)
wildcard_column_names(join) ==
    IF join.kind = "Table"
    THEN [n \in 1..num_columns(tables[join.table]) |->
             ResolvedColumn(join.table, tables[join.table].columns[n].name)]
    ELSE wildcard_column_names(join.left)
         \o SelectSeq(wildcard_column_names(join.right),
                      LAMBDA c : c \notin join.exclude_columns)

\* the JoinConstraint::Natural arm of Join::new: left_columns maps each
\* column name of the left side to its table (the last one of that name),
\* and every right column whose name is still in the map is removed from
\* it, excluded and added to the constraint
RECURSIVE natural(_, _, _, _, _)
natural(left_columns, right_columns, removed, constraint, exclude_columns) ==
    IF right_columns = <<>>
    THEN [constraint |-> constraint, exclude_columns |-> exclude_columns]
    ELSE LET right_column == Head(right_columns)
             named == {n \in 1..Len(left_columns) :
                          left_columns[n][2] = right_column[2]}
         IN IF named = {} \/ right_column[2] \in removed
            THEN natural(left_columns, Tail(right_columns), removed, constraint,
                         exclude_columns)
            ELSE natural(left_columns, Tail(right_columns),
                         removed \cup {right_column[2]},
                         BinaryOp(constraint, "And", "",
                                  BinaryOp(Identifier(left_columns[
                                               CHOOSE n \in named :
                                                   \A m \in named : m <= n]),
                                           "Comparison", "Eq",
                                           Identifier(right_column))),
                         exclude_columns \cup {right_column})

\* resolved_join without exclude_columns
resolved_join_all_columns(left, right, operator, resolved) ==
    [kind |-> "Join", left |-> left, right |-> right, join_operator |-> operator,
     constraint |-> resolved.constraint, exclude_columns |-> {}]

\* the Join::Join value Join::new builds from resolved sides
resolved_join(left, right, operator, resolved) ==
    [kind |-> "Join", left |-> left, right |-> right, join_operator |-> operator,
     constraint |-> resolved.constraint,
     exclude_columns |-> resolved.exclude_columns]

\* Join::new
RECURSIVE JoinNew(_)
JoinNew(joins) ==
    IF joins.kind = "Table" THEN joins
    ELSE resolved_join(JoinNew(joins.left), JoinNew(joins.right), joins.operator,
            IF joins.constraint.kind = "On"
            THEN [constraint |-> joins.constraint.expression, exclude_columns |-> {}]
            ELSE IF joins.constraint.kind = "Natural"
            THEN natural(wildcard_column_names(JoinNew(joins.left)),
                         wildcard_column_names(JoinNew(joins.right)),
                         {}, Value(Integer(1)), {})
            ELSE [constraint |-> NoConstraint, exclude_columns |-> {}])

\* Join::num_tables
RECURSIVE num_tables(_)
num_tables(join) ==
    IF join.kind = "Table" THEN 1
    ELSE num_tables(join.left) + num_tables(join.right)

\* the tables of a join, in the order of the buffer
RECURSIVE table_names(_)
table_names(join) ==
    IF join.kind = "Table" THEN <<join.table>>
    ELSE table_names(join.left) \o table_names(join.right)

\* Join::iter_inner: every table iterator at the start, every Inner join
\* with initialise set, every Left or Right join with advance_left or
\* advance_right (advance_outer) set and nothing yielded
RECURSIVE iter_inner(_)
iter_inner(join) ==
    IF join.kind = "Table" THEN [kind |-> "Table", table |-> join.table, next |-> 0]
    ELSE [kind |-> "Join", left |-> iter_inner(join.left),
          right |-> iter_inner(join.right), left_len |-> num_tables(join.left),
          join_operator |-> join.join_operator, constraint |-> join.constraint,
          initialise |-> TRUE, advance_outer |-> TRUE, has_yielded |-> FALSE]

\* a join without constraint other than Inner: iter_inner fails
RECURSIVE no_constraint_on_join(_)
no_constraint_on_join(join) ==
    /\ join.kind = "Join"
    /\ \/ join.join_operator # "Inner" /\ join.constraint = NoConstraint
       \/ no_constraint_on_join(join.left)
       \/ no_constraint_on_join(join.right)

\* TableRow::new and TableRow::default
TableRow(left, right) == [key |-> left, row |-> right]
DefaultRow == [key |-> NoRow, row |-> <<>>]

\* the columns and the values an expression over a buffer reads
\* (GetData for (&JoinIterInner, &JoinIterInner, &[TableRow])): the column
\* is found by its table, and an empty TableRow reads as Null
buffer_columns(names) ==
    [columns |->
        [n \in 1..Len(names) |-> [name |-> names[n]]]]

RECURSIVE columns_of(_)
columns_of(names) ==
    IF names = <<>> THEN <<>>
    ELSE [n \in 1..num_columns(tables[Head(names)]) |->
             ResolvedColumn(Head(names), tables[Head(names)].columns[n].name)]
         \o columns_of(Tail(names))

RECURSIVE buffer_values(_, _)
buffer_values(names, buffer) ==
    IF names = <<>> THEN <<>>
    ELSE (IF Head(buffer) = DefaultRow
          THEN [n \in 1..num_columns(tables[Head(names)]) |-> Null]
          ELSE Head(buffer).row)
         \o buffer_values(Tail(names), Tail(buffer))

\* evaluate_expression(constraint, &(left, right, buffer)).is_true()
constraint_is_true(iter, buffer) ==
    is_true(evaluate_expression(iter.constraint,
                                buffer_columns(columns_of(table_names(iter))),
                                buffer_values(table_names(iter), buffer)))

\* the state of an iterator after a call: the iterator, the buffer it
\* wrote and the boolean it returned
Advanced(iter, buffer, more) == [iter |-> iter, buffer |-> buffer, more |-> more]

\* buffer.split_at_mut(left_len): the part of the buffer one side writes
side_buffer(iter, buffer, side) ==
    IF side = "left" THEN SubSeq(buffer, 1, iter.left_len)
    ELSE SubSeq(buffer, iter.left_len + 1, Len(buffer))

\* a join after a call on one of its sides: the side's iterator and its
\* part of the buffer are replaced, and the boolean is the side's
called(iter, buffer, side, r) ==
    Advanced([iter EXCEPT ![side] = r.iter],
             IF side = "left" THEN r.buffer \o side_buffer(iter, buffer, "right")
             ELSE side_buffer(iter, buffer, "left") \o r.buffer,
             r.more)

\* the JoinIterInner::Table arm of advance: the next row of the tree, or,
\* at its end, an empty row and a fresh iterator
table_advance(iter) ==
    LET keys == sorted_keys({k \in DOMAIN trees[iter.table] : k >= iter.next}) IN
    IF keys # <<>>
    THEN Advanced([iter EXCEPT !.next = Head(keys) + 1],
                  <<TableRow(Head(keys), trees[iter.table][Head(keys)])>>, TRUE)
    ELSE Advanced([iter EXCEPT !.next = 0], <<DefaultRow>>, FALSE)

\* JoinIterInner::reset: the table iterators start again and the buffer is
\* emptied; the flags of the joins are left as they are
RECURSIVE reset(_)
both_reset(iter, l, r) ==
    Advanced([iter EXCEPT !.left = l.iter, !.right = r.iter],
             l.buffer \o r.buffer, FALSE)

reset(iter) ==
    IF iter.kind = "Table"
    THEN Advanced([iter EXCEPT !.next = 0], <<DefaultRow>>, FALSE)
    ELSE both_reset(iter, reset(iter.left), reset(iter.right))

RECURSIVE advance(_, _)
RECURSIVE inner_right(_, _)
RECURSIVE inner_after_right(_, _)
RECURSIVE inner_left(_)
RECURSIVE inner_after_left(_)
RECURSIVE inner_check(_, _)
RECURSIVE outer_inner(_, _, _, _)
RECURSIVE outer_after_inner(_, _, _)
RECURSIVE outer_after_outer(_, _, _)
RECURSIVE outer_outer(_, _, _)
RECURSIVE outer_after_reset(_, _, _)
RECURSIVE outer_check(_, _, _, _)

\* JoinIterInner::next_reset
next_reset(iter) == advance(reset(iter).iter, reset(iter).buffer)

\* the JoinType::Inner arm of advance
inner_advance(iter, buffer) ==
    IF iter.initialise
    THEN inner_after_left(called(iter, buffer, "left",
                                 advance(iter.left, side_buffer(iter, buffer, "left"))))
    ELSE inner_right(iter, buffer)

\* `if !left.advance(left_buffer)? { return Ok(false) }`: while the join is
\* being initialised the right side is advanced next, later the constraint
\* is evaluated
inner_after_left(s) ==
    IF ~s.more THEN s
    ELSE IF s.iter.initialise THEN inner_right(s.iter, s.buffer)
    ELSE inner_check(s.iter, s.buffer)

\* `if !right.advance(right_buffer)?`
inner_right(iter, buffer) ==
    inner_after_right(called(iter, buffer, "right",
                             advance(iter.right, side_buffer(iter, buffer, "right"))),
                      iter.initialise)

\* the right side at its end: the walk is over when the join is being
\* initialised, else the right side starts again (right.next_reset)
inner_after_right(s, initialise) ==
    IF s.more THEN inner_check(s.iter, s.buffer)
    ELSE IF initialise THEN s
    ELSE inner_left(called(s.iter, s.buffer, "right", next_reset(s.iter.right)))

\* the left side moves on after the right side started again
inner_left(s) ==
    inner_after_left(called(s.iter, s.buffer, "left",
                            advance(s.iter.left, side_buffer(s.iter, s.buffer, "left"))))

\* inner_check without its loop: the walk ends at the first pair on which
\* the constraint is not truthy
inner_check_once(iter, buffer) ==
    Advanced([iter EXCEPT !.initialise = FALSE], buffer,
             iter.constraint = NoConstraint \/ constraint_is_true(iter, buffer))

\* `*initialise = false` and the constraint; the loop goes round when the
\* constraint is not truthy
inner_check(iter, buffer) ==
    IF iter.constraint = NoConstraint \/ constraint_is_true(iter, buffer)
    THEN Advanced([iter EXCEPT !.initialise = FALSE], buffer, TRUE)
    ELSE advance([iter EXCEPT !.initialise = FALSE], buffer)

\* the JoinType::Left arm of advance (outer is "left", inner is "right") and
\* the JoinType::Right arm (outer is "right", inner is "left")
outer_advance(iter, buffer, outer, inner) ==
    IF iter.advance_outer
    THEN outer_after_outer(
            called([iter EXCEPT !.advance_outer = FALSE], buffer, outer,
                   advance(iter[outer], side_buffer(iter, buffer, outer))),
            outer, inner)
    ELSE outer_inner(iter, buffer, outer, inner)

\* `if !left.advance(left_buffer)? { return Ok(false) }` under advance_left
outer_after_outer(s, outer, inner) ==
    IF ~s.more THEN s ELSE outer_inner(s.iter, s.buffer, outer, inner)

\* right.advance(right_buffer) of the Left arm, in either branch
outer_inner(iter, buffer, outer, inner) ==
    outer_after_inner(called(iter, buffer, inner,
                             advance(iter[inner], side_buffer(iter, buffer, inner))),
                      outer, inner)

\* outer_after_inner without right_has_yielded: a row with the inner side
\* empty at every end of the inner side
outer_after_inner_always(s, outer, inner) ==
    IF s.more THEN outer_check(s.iter, s.buffer, outer, inner)
    ELSE Advanced([s.iter EXCEPT !.advance_outer = TRUE], s.buffer, TRUE)

\* the inner side at its end: a row with the inner side empty when the
\* outer row has yielded nothing, else the inner side starts again
\* (right.next_reset); the constraint when the inner side gave a row
outer_after_inner(s, outer, inner) ==
    IF s.more THEN outer_check(s.iter, s.buffer, outer, inner)
    ELSE IF ~s.iter.has_yielded
    THEN Advanced([s.iter EXCEPT !.advance_outer = TRUE], s.buffer, TRUE)
    ELSE outer_outer(called(s.iter, s.buffer, inner, next_reset(s.iter[inner])),
                     outer, inner)

\* `*right_has_yielded = false` and the outer side moves on
outer_outer(s, outer, inner) ==
    outer_after_reset(
        called([s.iter EXCEPT !.has_yielded = FALSE], s.buffer, outer,
               advance(s.iter[outer], side_buffer(s.iter, s.buffer, outer))),
        outer, inner)

\* `if !left.advance(left_buffer)? { return Ok(false) }` after the inner
\* side started again
outer_after_reset(s, outer, inner) ==
    IF ~s.more THEN s ELSE outer_check(s.iter, s.buffer, outer, inner)

\* the constraint of a Left or Right join; the loop goes round when it is
\* not truthy
outer_check(iter, buffer, outer, inner) ==
    IF constraint_is_true(iter, buffer)
    THEN Advanced([iter EXCEPT !.has_yielded = TRUE], buffer, TRUE)
    ELSE advance(iter, buffer)

\* JoinIterInner::advance
advance(iter, buffer) ==
    IF iter.kind = "Table" THEN table_advance(iter)
    ELSE IF iter.join_operator = "Inner" THEN inner_advance(iter, buffer)
    ELSE IF iter.join_operator = "Left" THEN outer_advance(iter, buffer, "left", "right")
    ELSE outer_advance(iter, buffer, "right", "left")

\* JoinIter::get_next until it returns None, without WHERE: the buffers of
\* the rows it returned
RECURSIVE join_rows(_, _)
join_rows(s, gathered) ==
    IF ~s.more THEN gathered
    ELSE join_rows(advance(s.iter, s.buffer), Append(gathered, s.buffer))

\* Join::iter: the iterator and a buffer of num_tables empty rows
first_row(join) ==
    advance(iter_inner(join), [n \in 1..num_tables(join) |-> DefaultRow])

\* the projections of SELECT *, evaluated on one buffer
wildcard_row(join, buffer) ==
    [n \in 1..Len(wildcard_column_names(join)) |->
        evaluate_expression(Identifier(wildcard_column_names(join)[n]),
                            buffer_columns(columns_of(table_names(join))),
                            buffer_values(table_names(join), buffer))]

\* Interpreter::generate_results for SELECT * FROM joins: the buffers the
\* iterator returns, and the Relation made from them
relation_of(join, buffers) ==
    [err |-> Ok,
     column_names |-> [n \in 1..Len(wildcard_column_names(join)) |->
                          wildcard_column_names(join)[n][2]],
     rows |-> [n \in 1..Len(buffers) |-> wildcard_row(join, buffers[n])]]

\* Interpreter::execute_select for SELECT * FROM joins
execute_select(joins) ==
    IF \E t \in Range(table_names(joins)) : t \notin DOMAIN tables
    THEN [err |-> Error("NoTable", ""), column_names |-> <<>>, rows |-> <<>>]
    ELSE IF no_constraint_on_join(JoinNew(joins))
    THEN [err |-> Error("NoConstraintOnJoin", ""), column_names |-> <<>>,
          rows |-> <<>>]
    ELSE relation_of(JoinNew(joins), join_rows(first_row(JoinNew(joins)), <<>>))

----------------------------------------------------------------------------
(* SELECT * over joins of stored tables.                                  *)

MaxJoinRows == 2   \* rows of each joined table

\* CREATE TABLE people (name string);
\* CREATE TABLE hobbies (name string, hobby string);
\* CREATE TABLE pets (pet string)
Joined ==
    [tables |->
        [t \in {"people", "hobbies", "pets"} |->
            IF t = "people"
            THEN TableDefinition(<<Column("name", "String", Null)>>, <<>>,
                                 <<>>, <<>>, <<>>)
            ELSE IF t = "hobbies"
            THEN TableDefinition(<<Column("name", "String", Null),
                                   Column("hobby", "String", Null)>>, <<>>,
                                 <<>>, <<>>, <<>>)
            ELSE TableDefinition(<<Column("pet", "String", Null)>>, <<>>,
                                 <<>>, <<>>, <<>>)],
     foreign_keys |-> [k \in {} |-> <<>>]]

\* the rows INSERT statements stored in the joined tables
JoinRows(t) ==
    IF t = "people" THEN {<<Null>>, <<String(a)>>, <<String(b)>>}
    ELSE IF t = "hobbies" THEN {<<Null, String(b)>>, <<String(a), String(b)>>}
    ELSE {<<String(a)>>}

\* the trees of a table after INSERT statements stored up to MaxJoinRows rows
TableContents(t) == UNION {[0..(n - 1) -> JoinRows(t)] : n \in 0..MaxJoinRows}

JoinInit ==
    /\ tables = Joined.tables
    /\ foreign_keys = Joined.foreign_keys
    /\ \E people \in TableContents("people") :
       \E hobbies \in TableContents("hobbies") :
       \E pets \in TableContents("pets") :
          trees = [t \in DOMAIN tables |->
                      IF t = "people" THEN people
                      ELSE IF t = "hobbies" THEN hobbies ELSE pets]
    /\ result = [op |-> "None", table |-> "", keys |-> {}, err |-> Ok]

\* ON left.l op right.r
Compared(left, l, op, right, r) ==
    On(BinaryOp(Identifier(ResolvedColumn(left, l)), "Comparison", op,
                Identifier(ResolvedColumn(right, r))))

\* FROM clauses over two tables: people joined with hobbies ON people.name =
\* hobbies.name or ON people.name < hobbies.name, without constraint and
\* NATURAL, and people NATURAL JOIN pets
Joins ==
    {TableJoins(TableJoin("people"), operator, TableJoin("hobbies"),
                Compared("people", "name", op, "hobbies", "name")) :
        operator \in {"Inner", "Left", "Right"}, op \in {"Eq", "Lt"}}
    \cup {TableJoins(TableJoin("people"), "Inner", TableJoin("hobbies"), NoConstraint),
          TableJoins(TableJoin("people"), "Inner", TableJoin("hobbies"), Natural),
          TableJoins(TableJoin("people"), "Inner", TableJoin("pets"), Natural)}

\* Database::execute_query with one SELECT * FROM joins statement.  A SELECT
\* changes no tree, so a behaviour holds one: a second one would read the
\* trees the first one read.
Select ==
    \E joins \in Joins :
        /\ result.op = "None"
        /\ LET r == execute_select(joins) IN
           result' = [op |-> "Select", table |-> joins, keys |-> {}, err |-> r.err,
                      column_names |-> r.column_names, rows |-> r.rows]
        /\ UNCHANGED <<tables, foreign_keys, trees>>

JoinNext == Select

JoinSpec == JoinInit /\ [][JoinNext]_vars

\* the number of rows of a Relation equal to row
Count(rows, row) == Cardinality({n \in DOMAIN rows : rows[n] = row})

LeftTable == result.table.left.table
RightTable == result.table.right.table

\* the values of the pair of stored rows under keys l and r
PairRow(l, r) == trees[LeftTable][l] \o trees[RightTable][r]

Nulls(t) == [n \in 1..num_columns(tables[t]) |-> Null]

\* the pairs of keys of the two joined tables on which the ON constraint of
\* the statement is truthy (every pair when there is none)
Matching ==
    {p \in (DOMAIN trees[LeftTable]) \X (DOMAIN trees[RightTable]) :
        result.table.constraint.kind = "On" =>
            is_true(evaluate_expression(result.table.constraint.expression,
                        buffer_columns(columns_of(<<LeftTable, RightTable>>)),
                        PairRow(p[1], p[2])))}

\* the rows a join of two tables is to return: one per matching pair, and
\* one per unmatched row of the outer side, with Null for the other side
Expected ==
    {[kind |-> "Pair", l |-> p[1], r |-> p[2]] : p \in Matching}
    \cup (IF result.table.operator = "Left"
          THEN {[kind |-> "Left", l |-> l, r |-> NoRow] :
                   l \in {l \in DOMAIN trees[LeftTable] :
                             \A r \in DOMAIN trees[RightTable] : <<l, r>> \notin Matching}}
          ELSE {})
    \cup (IF result.table.operator = "Right"
          THEN {[kind |-> "Right", l |-> NoRow, r |-> r] :
                   r \in {r \in DOMAIN trees[RightTable] :
                             \A l \in DOMAIN trees[LeftTable] : <<l, r>> \notin Matching}}
          ELSE {})

ExpectedRow(e) ==
    IF e.kind = "Pair" THEN PairRow(e.l, e.r)
    ELSE IF e.kind = "Left" THEN trees[LeftTable][e.l] \o Nulls(RightTable)
    ELSE Nulls(LeftTable) \o trees[RightTable][e.r]

\* the Relation holds the expected rows, each as often as expected
YieldsExpected ==
    /\ result.err = Ok
    /\ Len(result.rows) = Cardinality(Expected)
    /\ \A e \in Expected :
          Count(result.rows, ExpectedRow(e))
              = Cardinality({f \in Expected : ExpectedRow(f) = ExpectedRow(e)})

OnOrNone == result.table.constraint.kind \in {"On", "None"}

\* C14: A INNER JOIN B with constraint p yields each pair of a row of A and
\* a row of B on which p is truthy exactly once, and nothing else; with no
\* constraint it yields the cross product.
C14_InnerJoinYieldsMatchingPairs ==
    (result.op = "Select" /\ result.table.operator = "Inner" /\ OnOrNone)
    => YieldsExpected

C14_Witness ==
    /\ result.op = "Select" /\ result.table.operator = "Inner"
    /\ result.table.constraint.kind = "On"
    /\ Len(result.rows) = 2
    /\ Cardinality(DOMAIN trees[LeftTable]) = 2
    /\ Cardinality(DOMAIN trees[RightTable]) = 2

\* C15: A LEFT JOIN B yields every matching pair once and, for each row of
\* A without a matching row of B, exactly one row with Null in every column
\* of B, so at least as many rows as A holds; RIGHT JOIN is the mirror
\* image.
C15_OuterJoinKeepsUnmatchedRows ==
    (result.op = "Select" /\ result.table.operator \in {"Left", "Right"}
        /\ OnOrNone)
    => /\ YieldsExpected
       /\ Len(result.rows) >=
             Cardinality(DOMAIN trees[IF result.table.operator = "Left"
                                      THEN LeftTable ELSE RightTable])

C15_Witness ==
    /\ result.op = "Select" /\ result.table.operator = "Left"
    /\ result.table.constraint.kind = "On"
    /\ Cardinality(DOMAIN trees[LeftTable]) = 2
    /\ \E e \in Expected : e.kind = "Left"
    /\ \E e \in Expected : e.kind = "Pair"
    /\ Len(result.rows) = 2

\* the column names both joined tables have
Shared ==
    {c \in Range(column_names(tables[LeftTable])) :
        c \in Range(column_names(tables[RightTable]))}

\* the pairs of keys whose rows are equal on every shared column
EqualOnShared ==
    {p \in (DOMAIN trees[LeftTable]) \X (DOMAIN trees[RightTable]) :
        \A c \in Shared :
            compare(trees[LeftTable][p[1]][get_index(tables[LeftTable], c)],
                    trees[RightTable][p[2]][get_index(tables[RightTable], c)])
                = "Equal"}

\* the columns of the right table that the left table does not have
RightOnly ==
    SelectSeq([n \in 1..num_columns(tables[RightTable]) |-> n],
              LAMBDA n : tables[RightTable].columns[n].name \notin Shared)

\* the row of a pair with every shared column once
NaturalRow(p) ==
    trees[LeftTable][p[1]]
        \o [n \in 1..Len(RightOnly) |-> trees[RightTable][p[2]][RightOnly[n]]]

\* C17: SELECT * over A NATURAL JOIN B yields the pairs of rows equal on
\* every column name the two tables share; a shared column appears once,
\* the right table's copy being left out, and without a shared column the
\* result is the cross product with all columns of both tables.
C17_NaturalJoinSharedColumnsOnce ==
    (result.op = "Select" /\ result.table.constraint.kind = "Natural")
    => /\ result.err = Ok
       /\ result.column_names
             = column_names(tables[LeftTable])
                 \o [n \in 1..Len(RightOnly) |->
                        tables[RightTable].columns[RightOnly[n]].name]
       /\ Len(result.rows) = Cardinality(EqualOnShared)
       /\ \A p \in EqualOnShared :
             Count(result.rows, NaturalRow(p))
                 = Cardinality({q \in EqualOnShared : NaturalRow(q) = NaturalRow(p)})

C17_Witness ==
    /\ result.op = "Select" /\ result.table.constraint.kind = "Natural"
    /\ Shared = {"name"}
    /\ Cardinality(DOMAIN trees[LeftTable]) = 2
    /\ Cardinality(DOMAIN trees[RightTable]) = 2
    /\ Len(result.rows) = 1
    /\ result.column_names = <<"name", "hobby">>

----------------------------------------------------------------------------
(* SELECT * over join trees of three tables.                              *)

\* FROM people .. JOIN hobbies ON people.name = hobbies.name
\*          .. JOIN pets ON hobbies.name = pets.pet,
\* FROM people .. JOIN (hobbies .. JOIN pets ON hobbies.name = pets.pet)
\*          ON people.name = hobbies.name and
\* FROM people, hobbies .. JOIN pets ON hobbies.name = pets.pet
JoinTrees ==
    {TableJoins(TableJoins(TableJoin("people"), first, TableJoin("hobbies"), Compared("people", "name", "Eq", "hobbies", "name")),
                second, TableJoin("pets"), Compared("hobbies", "name", "Eq", "pets", "pet")) :
        first \in {"Inner", "Left", "Right"}, second \in {"Inner", "Left", "Right"}}
    \cup {TableJoins(TableJoin("people"), first,
                     TableJoins(TableJoin("hobbies"), second, TableJoin("pets"), Compared("hobbies", "name", "Eq", "pets", "pet")),
                     Compared("people", "name", "Eq", "hobbies", "name")) :
            first \in {"Inner", "Left", "Right"}, second \in {"Inner", "Left", "Right"}}
    \cup {TableJoins(TableJoin("people"), "Inner",
                     TableJoins(TableJoin("hobbies"), second, TableJoin("pets"), Compared("hobbies", "name", "Eq", "pets", "pet")),
                     NoConstraint) :
            second \in {"Inner", "Left", "Right"}}

\* Database::execute_query with one SELECT * FROM joins statement over
\* three tables
SelectTree ==
    \E joins \in JoinTrees :
        /\ result.op = "None"
        /\ LET r == execute_select(joins) IN
           result' = [op |-> "Select", table |-> joins, keys |-> {}, err |-> r.err,
                      column_names |-> r.column_names, rows |-> r.rows]
        /\ UNCHANGED <<tables, foreign_keys, trees>>

TreeNext == SelectTree

TreeSpec == JoinInit /\ [][TreeNext]_vars

\* the constraint of a join is truthy on a buffer
Truthful(join, buffer) ==
    \/ join.constraint = NoConstraint
    \/ is_true(evaluate_expression(join.constraint,
                   buffer_columns(columns_of(table_names(join))),
                   buffer_values(table_names(join), buffer)))

Empty(join) == [n \in 1..num_tables(join) |-> DefaultRow]

\* the buffers of a join by the semantics of its operator, from the buffers
\* of its sides
Joined2(join, L, R) ==
    {l \o r : <<l, r>> \in {p \in L \X R : Truthful(join, p[1] \o p[2])}}
    \cup (IF join.join_operator = "Left"
          THEN {l \o Empty(join.right) :
                   l \in {l \in L : \A r \in R : ~Truthful(join, l \o r)}}
          ELSE {})
    \cup (IF join.join_operator = "Right"
          THEN {Empty(join.left) \o r :
                   r \in {r \in R : \A l \in L : ~Truthful(join, l \o r)}}
          ELSE {})

\* the buffers of a join tree, evaluated recursively
RECURSIVE Rows(_)
Rows(join) ==
    IF join.kind = "Table"
    THEN {<<TableRow(k, trees[join.table][k])>> : k \in DOMAIN trees[join.table]}
    ELSE Joined2(join, Rows(join.left), Rows(join.right))

\* C16: the rows of a join tree over three tables, with any mix of Inner,
\* Left and Right joins at any nesting, are those of evaluating the tree
\* recursively with the semantics of each operator; a subtree that is
\* walked again yields the rows of its first walk.
C16_JoinTreeIsRecursiveEvaluation ==
    (result.op = "Select" /\ num_tables(result.table) = 3)
    => /\ result.err = Ok
       /\ Len(result.rows) = Cardinality(Rows(JoinNew(result.table)))
       /\ \A e \in Rows(JoinNew(result.table)) :
             Count(result.rows, wildcard_row(JoinNew(result.table), e))
                 = Cardinality({f \in Rows(JoinNew(result.table)) :
                                   wildcard_row(JoinNew(result.table), f)
                                       = wildcard_row(JoinNew(result.table), e)})

----------------------------------------------------------------------------
(* The row codec (storage.rs).  A stored row is a sequence of bytes: the  *)
(* sized columns, eight bytes each, then one bit per sized column (set    *)
(* when the column is not Null), then one u16 per unsized column (the     *)
(* position of its bytes, zero when it is Null), then the bytes of the    *)
(* unsized columns.  Positions are counted from zero, as in the source.   *)

\* u64::from_be_bytes of the bytes after acc; i64 and u16 values in the
\* range of the model are read the same way
RECURSIVE from_be_bytes(_, _)
from_be_bytes(bytes, acc) ==
    IF bytes = <<>> THEN acc ELSE from_be_bytes(Tail(bytes), acc * 256 + Head(bytes))

\* i64::to_be_bytes: eight bytes, two's complement; the four bytes on the
\* left are those of the sign, since i is within 32 bits here
i64_to_be_bytes(i) ==
    [k \in 1..8 |->
        IF i >= 0 THEN (IF k <= 4 THEN 0 ELSE (i \div (256 ^ (8 - k))) % 256)
        ELSE 255 - (IF k <= 4 THEN 0 ELSE ((-(i + 1)) \div (256 ^ (8 - k))) % 256)]

\* i64::from_be_bytes
i64_from_be_bytes(bytes) ==
    IF bytes[1] < 128 THEN from_be_bytes(bytes, 0)
    ELSE (-from_be_bytes([k \in 1..Len(bytes) |-> 255 - bytes[k]], 0)) - 1

\* (n as u16).to_be_bytes()
u16_to_be_bytes(n) == <<(n % 65536) \div 256, n % 256>>

\* Type::size as an Option: 0 stands for None
size(type) == IF type = "Integer" THEN 8 ELSE 0

\* TypeContents::encode after Type::resolve_value
encode(type, value) ==
    IF cast(value, type).t = "Integer" THEN i64_to_be_bytes(cast(value, type).i)
    ELSE cast(value, type).s

\* Type::decode
decode(type, bytes) ==
    IF type = "Integer"
    THEN (IF Len(bytes) = 8 THEN Integer(i64_from_be_bytes(bytes)) ELSE ValueError)
    ELSE String(bytes)

\* the number of columns before column n that are sized, or unsized
count_before(def, n, sized) ==
    Cardinality({m \in 1..(n - 1) : (size(def.columns[m].type) > 0) = sized})

\* Columns after add_column for every column of def: ColumnEntry::new(t,
\* position, null_index) per column, sized_len, sized_count, unsized_count,
\* and what bitmask_start, directory_start, fixed_len and
\* last_unsized_position return for them, with bitmask_size being
\* (sized_count + 7) / 8
Columns(def) ==
    [columns |->
        [n \in 1..Len(def.columns) |->
            IF size(def.columns[n].type) > 0
            THEN [t |-> def.columns[n].type,
                  position |-> 8 * count_before(def, n, TRUE),
                  null_index |-> count_before(def, n, TRUE)]
            ELSE [t |-> def.columns[n].type,
                  position |-> 2 * count_before(def, n, FALSE),
                  null_index |-> 0]],
     sized_len |-> 8 * count_before(def, Len(def.columns) + 1, TRUE),
     sized_count |-> count_before(def, Len(def.columns) + 1, TRUE),
     unsized_count |-> count_before(def, Len(def.columns) + 1, FALSE),
     bitmask_start |-> 8 * count_before(def, Len(def.columns) + 1, TRUE),
     directory_start |->
        8 * count_before(def, Len(def.columns) + 1, TRUE)
            + ((count_before(def, Len(def.columns) + 1, TRUE) + 7) \div 8),
     fixed_len |->
        8 * count_before(def, Len(def.columns) + 1, TRUE)
            + ((count_before(def, Len(def.columns) + 1, TRUE) + 7) \div 8)
            + count_before(def, Len(def.columns) + 1, FALSE) * 2,
     last_unsized_position |->
        8 * count_before(def, Len(def.columns) + 1, TRUE)
            + ((count_before(def, Len(def.columns) + 1, TRUE) + 7) \div 8)
            + (count_before(def, Len(def.columns) + 1, FALSE) - 1) * 2]

\* row[pos..pos + bytes.len()].copy_from_slice(bytes)
copy_from_slice(row, pos, bytes) ==
    [i \in 1..Len(row) |->
        IF pos < i /\ i <= pos + Len(bytes) THEN bytes[i - pos] ELSE row[i]]

\* row[pos..end]
slice(row, pos, end) == SubSeq(row, pos + 1, end)

\* row[index] |= 1 << bit
set_bit(row, index, bit) ==
    [row EXCEPT ![index + 1] =
        IF (@ \div (2 ^ bit)) % 2 = 1 THEN @ ELSE @ + (2 ^ bit)]

\* append_unsized
append_unsized(dictionary_position, bytes, row) ==
    copy_from_slice(row, dictionary_position, u16_to_be_bytes(Len(row))) \o bytes

\* get_unsized_data that takes the rest of the row
get_unsized_data_to_end(dictionary_position, end_position, row) ==
    slice(row, from_be_bytes(slice(row, dictionary_position, dictionary_position + 2), 0),
          Len(row))

\* the loop of get_unsized_data: the end of the bytes is the first position
\* after dictionary_position that is not zero, or the end of the row
RECURSIVE unsized_end(_, _, _)
unsized_end(next_start, end_position, row) ==
    IF next_start + 2 > end_position THEN Len(row)
    ELSE IF from_be_bytes(slice(row, next_start + 2, next_start + 4), 0) > 0
    THEN from_be_bytes(slice(row, next_start + 2, next_start + 4), 0)
    ELSE unsized_end(next_start + 2, end_position, row)

\* get_unsized_data
get_unsized_data(dictionary_position, end_position, row) ==
    slice(row, from_be_bytes(slice(row, dictionary_position, dictionary_position + 2), 0),
          unsized_end(dictionary_position, end_position, row))

\* the loop of Columns::generate_row, from column n on
RECURSIVE generate_columns(_, _, _, _)
generate_columns(cs, data, n, row) ==
    IF n > Len(data) THEN row
    ELSE generate_columns(cs, data, n + 1,
            IF data[n].t = "Null" THEN row
            ELSE IF size(cs.columns[n].t) > 0
            THEN copy_from_slice(
                    set_bit(row, cs.bitmask_start + (cs.columns[n].null_index \div 8),
                            cs.columns[n].null_index % 8),
                    cs.columns[n].position, encode(cs.columns[n].t, data[n]))
            ELSE append_unsized(cs.directory_start + cs.columns[n].position,
                                encode(cs.columns[n].t, data[n]), row))

\* Columns::generate_row: the bytes, or <<>> with an error
generate_row(cs, data) ==
    IF Len(cs.columns) # Len(data)
    THEN [err |-> Error("WrongNumColumns", ""), row |-> <<>>]
    ELSE [err |-> Ok,
          row |-> generate_columns(cs, data, 1, [i \in 1..cs.fixed_len |-> 0])]

\* Columns::get_data with a usize key
columns_get_data(cs, key, row) ==
    IF key \notin DOMAIN cs.columns THEN ValueError
    ELSE IF size(cs.columns[key].t) > 0
    THEN (IF (row[cs.bitmask_start + (cs.columns[key].null_index \div 8) + 1]
                 \div (2 ^ (cs.columns[key].null_index % 8))) % 2 = 0
          THEN Null
          ELSE decode(cs.columns[key].t,
                      slice(row, cs.columns[key].position,
                            cs.columns[key].position + 8)))
    ELSE IF slice(row, cs.directory_start + cs.columns[key].position,
                  cs.directory_start + cs.columns[key].position + 2) = <<0, 0>>
    THEN Null
    ELSE decode(cs.columns[key].t,
                get_unsized_data(cs.directory_start + cs.columns[key].position,
                                 cs.last_unsized_position, row))

----------------------------------------------------------------------------
(* Rows of every schema of up to MaxColumns columns, encoded and read.    *)

MaxColumns == 3   \* columns of a schema

\* CREATE TABLE row (c1 .., c2 .., ..) with Integer and String columns in
\* any order
Schemas ==
    {TableDefinition([n \in 1..Len(types) |-> Column(ToString(n), types[n], Null)],
                     <<>>, <<>>, <<>>, <<>>) :
        types \in UNION {[1..n -> {"Integer", "String"}] : n \in 1..MaxColumns}}

\* the values of a column of a type: Null, Integers of one byte, of more
\* bytes and negative, the empty String and Strings of one and two bytes
TypedValues(type) ==
    IF type = "Integer"
    THEN {Null, Integer(0), Integer(258), Integer(-2), Integer(IntMax)}
    ELSE {Null, String(<<>>), String(a), String(a \o b)}

CodecInit ==
    /\ \E def \in Schemas : tables = [t \in {"row"} |-> def]
    /\ foreign_keys = [k \in {} |-> <<>>]
    /\ trees = [t \in DOMAIN tables |-> EmptyTree]
    /\ result = [op |-> "None", table |-> "", keys |-> {}, err |-> Ok]

\* Columns::generate_row on a row of values of the types of the schema
GenerateRow ==
    /\ result.op = "None"
    /\ \E data \in {d \in [1..num_columns(tables["row"]) ->
                               TypedValues("Integer") \cup TypedValues("String")] :
                       \A n \in DOMAIN d :
                           d[n] \in TypedValues(tables["row"].columns[n].type)} :
          LET r == generate_row(Columns(tables["row"]), data) IN
          result' = [op |-> "generate_row", table |-> "row", keys |-> {},
                     err |-> r.err, data |-> data, row |-> r.row,
                     value |-> Null]
    /\ UNCHANGED <<tables, foreign_keys, trees>>

\* Columns::get_data on the bytes generate_row made
GetData ==
    /\ result.op = "generate_row" /\ result.err = Ok
    /\ \E key \in 1..num_columns(tables["row"]) :
          result' = [result EXCEPT !.op = "get_data", !.keys = {key},
                        !.value = columns_get_data(Columns(tables["row"]), key,
                                                   result.row)]
    /\ UNCHANGED <<tables, foreign_keys, trees>>

CodecNext == GenerateRow \/ GetData

CodecSpec == CodecInit /\ [][CodecNext]_vars

\* C18: every column of a row of the schema, encoded by generate_row in at
\* most 65,535 bytes, is read by get_data as the value that was encoded:
\* Null, Integer, empty and non-empty String alike.
C18_RowCodecRoundTrips ==
    (result.op = "get_data" /\ Len(result.row) <= 65535)
    => \A key \in result.keys : result.value = result.data[key]

\* the empty String between a negative Integer and a String of two bytes,
\* read back from a row of fifteen bytes
C18_Witness ==
    /\ result.op = "get_data" /\ result.keys = {2}
    /\ num_columns(tables["row"]) = 3
    /\ result.value = String(<<>>)
    /\ result.data[1] = Integer(-2) /\ result.data[3] = String(a \o b)
    /\ Len(result.row) = 8 + 1 + 4 + 2

----------------------------------------------------------------------------
(* Database::execute_query on a string of several statements (lib.rs).    *)

\* SqlQuery::Insert, SqlQuery::Delete, SqlQuery::Update and
\* SqlQuery::SelectQuery (SELECT * FROM t) as process_query returns them
InsertInto(t, rows) == [kind |-> "Insert", table |-> t, rows |-> rows]
DeleteFrom(t, predicate) == [kind |-> "Delete", table |-> t, predicate |-> predicate]
UpdateSet(t, assignments, filter) ==
    [kind |-> "Update", table |-> t, assignments |-> assignments, filter |-> filter]
SelectFrom(t) == [kind |-> "Select", table |-> t]

\* Relation::default
EmptyRelation == [column_names |-> <<>>, rows |-> <<>>]

\* Interpreter::execute_select for SELECT * FROM t on the trees tr: the rows
\* of t in the order of their keys
select_all(tr, t) ==
    [column_names |-> column_names(tables[t]),
     rows |-> [n \in 1..Cardinality(DOMAIN tr[t]) |->
                  tr[t][sorted_keys(DOMAIN tr[t])[n]]]]

\* the Relation of a statement other than SELECT: Ok(Default::default())
without_rows(r) == [trees |-> r.trees, err |-> r.err, relation |-> EmptyRelation]

\* Interpreter::execute
execute(tr, query) ==
    IF query.kind = "Insert" THEN without_rows(execute_insert(tr, query.table, query.rows))
    ELSE IF query.kind = "Delete"
    THEN without_rows(execute_delete(tr, query.table, query.predicate))
    ELSE IF query.kind = "Update"
    THEN without_rows(execute_update(tr, query.table, query.assignments, query.filter))
    ELSE [trees |-> tr, err |-> Ok, relation |-> select_all(tr, query.table)]

RECURSIVE execute_query_inner(_, _, _)

\* execute_query_inner that goes on after a statement failed
executed_all(r, statements, results) ==
    execute_query_inner(r.trees, statements, Append(results, r.relation))

\* `results.push(self.interpreter.execute(processed_query, parameters)?)`
executed(r, statements, results) ==
    IF r.err # Ok THEN [trees |-> r.trees, err |-> r.err, results |-> <<>>]
    ELSE execute_query_inner(r.trees, statements, Append(results, r.relation))

\* Database::execute_query_inner on the statements the parser returned
execute_query_inner(tr, statements, results) ==
    IF statements = <<>> THEN [trees |-> tr, err |-> Ok, results |-> results]
    ELSE executed(execute(tr, Head(statements)), Tail(statements), results)

----------------------------------------------------------------------------
(* Strings of up to MaxStatements statements on an empty database.        *)

MaxStatements == 2   \* statements of a string

\* the statements of the strings: INSERT of one row, DELETE without WHERE
\* or with first column = literal, UPDATE of the first column to a value
\* that is not Null without WHERE, SELECT *
Statements ==
    UNION {{InsertInto(t, <<row>>) : row \in InputRows(t)}
           \cup {DeleteFrom(t, Value(Integer(1))),
                 DeleteFrom(t, BinaryOp(Identifier(tables[t].columns[1].name),
                                        "Comparison", "Eq", Value(WhereValue(t, 1))))}
           \cup {UpdateSet(t, assignments, Value(Integer(1))) :
                    assignments \in {x \in Assignments(t) : \A y \in x :
                                         /\ y.column = tables[t].columns[1].name
                                         /\ ~is_null(y.value.value)}}
           \cup {SelectFrom(t)} : t \in DOMAIN tables}

\* Database::execute_query.  The strings are run on the empty database, the
\* later statements of a string on what the earlier ones stored.
ExecuteQuery ==
    \E statements \in UNION {[1..n -> Statements] : n \in 1..MaxStatements} :
        /\ result.op = "None"
        /\ Cardinality({n \in DOMAIN statements : statements[n].kind = "Insert"})
               <= MaxKey + 1
        /\ LET r == execute_query_inner(trees, statements, <<>>) IN
           /\ trees' = r.trees
           /\ result' = [op |-> "Query", table |-> "", keys |-> {}, err |-> r.err,
                         statements |-> statements, results |-> r.results]
        /\ UNCHANGED <<tables, foreign_keys>>

QueryNext == ExecuteQuery

QuerySpec == Init /\ [][QueryNext]_vars

\* the trees after the first k statements, each executed on what the one
\* before it left
RECURSIVE After(_, _)
After(statements, k) ==
    IF k = 0 THEN trees
    ELSE execute(After(statements, k - 1), statements[k]).trees

\* statement k executed after the k - 1 before it
Alone(statements, k) == execute(After(statements, k - 1), statements[k])

\* the statements that fail when each is executed after those before it
Failing(statements) ==
    {k \in DOMAIN statements : Alone(statements, k).err # Ok}

First(ks) == CHOOSE k \in ks : \A j \in ks : k <= j

\* C19: the statements of a string are executed one after another in their
\* order.  When all succeed there is one Relation per statement, in order,
\* the empty Relation for every statement other than SELECT; when statement
\* k fails, its error is the only thing returned, what the statements
\* before it stored remains, and the statements after it are not executed.
C19_StatementsRunInOrder ==
    [][result'.op = "Query" =>
        IF Failing(result'.statements) = {}
        THEN /\ result'.err = Ok
             /\ Len(result'.results) = Len(result'.statements)
             /\ \A k \in DOMAIN result'.statements :
                   /\ result'.results[k] = Alone(result'.statements, k).relation
                   /\ result'.statements[k].kind # "Select"
                         => result'.results[k] = EmptyRelation
             /\ trees' = After(result'.statements, Len(result'.statements))
        ELSE /\ result'.err
                   = Alone(result'.statements, First(Failing(result'.statements))).err
             /\ result'.results = <<>>
             /\ trees' = After(result'.statements,
                               First(Failing(result'.statements)))]_vars

\* an INSERT that stored a row, then a statement that failed
C19_Witness ==
    /\ result.op = "Query" /\ result.err # Ok
    /\ Len(result.statements) >= 2
    /\ result.statements[1].kind = "Insert"
    /\ trees[result.statements[1].table] # EmptyTree

----------------------------------------------------------------------------
(* DROP TABLE (foreign_key.rs, interpreter.rs).                           *)

\* the loop of ForeignKeys::process_drop_table over the rows of the
\* registry in the order of their keys: a row of the table is deleted, a
\* row that refers to the table ends the loop with an error
RECURSIVE process_drop_rows(_, _, _)
process_drop_rows(fks, keys, table) ==
    IF keys = <<>> THEN [foreign_keys |-> fks, err |-> Ok]
    ELSE IF fks[Head(keys)].table = table
    THEN process_drop_rows(tree_remove(fks, Head(keys)), Tail(keys), table)
    ELSE IF fks[Head(keys)].referred_table = table
    THEN [foreign_keys |-> fks,
          err |-> Error("ForeignKeyDependencyDelete", fks[Head(keys)].name)]
    ELSE process_drop_rows(fks, Tail(keys), table)

\* ForeignKeys::process_drop_table
process_drop_table(fks, table) ==
    process_drop_rows(fks, sorted_keys(DOMAIN fks), table)

\* the database as one value: the directory @tables, the registry
\* @foreign_keys and the trees of the tables, with the Result of the call
Database(tb, fks, tr, e) ==
    [tables |-> tb, foreign_keys |-> fks, trees |-> tr, err |-> e]

\* one turn of the `for name in drop_table.names` loop of
\* execute_drop_table, after process_drop_table returned r
dropped(db, r, name, if_exists) ==
    IF r.err # Ok
    THEN Database(db.tables, r.foreign_keys, db.trees, r.err)
    ELSE IF ~if_exists /\ name \notin DOMAIN db.tables
    THEN Database(db.tables, r.foreign_keys, db.trees, Error("NoTable", name))
    ELSE Database([t \in (DOMAIN db.tables) \ {name} |-> db.tables[t]],
                  r.foreign_keys,
                  [t \in (DOMAIN db.trees) \ {name} |-> db.trees[t]], Ok)

\* the `for name in drop_table.names` loop: the first error ends it
RECURSIVE drop_names(_, _, _)
drop_names(db, names, if_exists) ==
    IF db.err # Ok \/ names = <<>> THEN db
    ELSE drop_names(dropped(db, process_drop_table(db.foreign_keys, Head(names)),
                            Head(names), if_exists),
                    Tail(names), if_exists)

\* Interpreter::execute_drop_table for DROP TABLE [IF EXISTS] names
execute_drop_table(names, if_exists) ==
    drop_names(Database(tables, foreign_keys, trees, Ok), names, if_exists)

\* CREATE TABLE parent (name string UNIQUE);
\* CREATE TABLE child (name string UNIQUE, CONSTRAINT fkey
\*   FOREIGN KEY (name) REFERENCES parent(name));
\* CREATE TABLE grandchild (name string, CONSTRAINT gkey
\*   FOREIGN KEY (name) REFERENCES child(name))
Chain ==
    [tables |->
        [t \in {"parent", "child", "grandchild"} |->
            IF t = "grandchild"
            THEN TableDefinition(<<Column("name", "String", Null)>>, <<>>,
                                 <<>>, <<>>, <<>>)
            ELSE TableDefinition(<<Column("name", "String", Null)>>, <<>>,
                                 <<Constraint(<<1>>, "name")>>, <<>>, <<>>)],
     foreign_keys |->
        [k \in {0, 1} |->
            IF k = 0
            THEN ForeignKey("fkey", "child", <<"name">>, "parent", <<"name">>,
                            NoAction, NoAction)
            ELSE ForeignKey("gkey", "grandchild", <<"name">>, "child", <<"name">>,
                            NoAction, NoAction)]]

DropInit ==
    /\ tables = Chain.tables
    /\ foreign_keys = Chain.foreign_keys
    /\ trees = [t \in DOMAIN tables |-> EmptyTree]
    /\ result = [op |-> "None", table |-> "", keys |-> {}, err |-> Ok]

\* Database::execute_query with one DROP TABLE statement
DropTable ==
    \E name \in DOMAIN Chain.tables : \E if_exists \in BOOLEAN :
        LET r == execute_drop_table(<<name>>, if_exists) IN
        /\ tables' = r.tables
        /\ foreign_keys' = r.foreign_keys
        /\ trees' = r.trees
        /\ result' = [op |-> "DropTable", table |-> name, keys |-> {}, err |-> r.err]

DropNext == Insert \/ DropTable

DropSpec == DropInit /\ [][DropNext]_vars

\* C20: DROP TABLE t is refused with a foreign-key dependency error when a
\* FOREIGN KEY record of another table names t as its referred table, and
\* the refused statement leaves the catalog, the rows of t and the FOREIGN
\* KEY records as they were.
C20_RefusedDropChangesNothing ==
    [][(/\ result'.op = "DropTable"
        /\ \E k \in DOMAIN foreign_keys :
              /\ foreign_keys[k].referred_table = result'.table
              /\ foreign_keys[k].table # result'.table)
       => /\ result'.err.kind = "ForeignKeyDependencyDelete"
          /\ tables' = tables
          /\ trees' = trees
          /\ foreign_keys' = foreign_keys]_vars

----------------------------------------------------------------------------
(* Statements that name an internal tree.                                 *)

\* the trees Interpreter keeps for itself (open_tree("@tables"),
\* open_internal_table("@foreign_keys", ..))
InternalTrees == {"@tables", "@foreign_keys"}

\* C22: a table name that begins with '@' is refused for user tables: a
\* statement that names one is not executed, so the trees @tables and
\* @foreign_keys are never written as a user table.
C22_InternalTreesAreNotUserTables ==
    [][result'.table \in InternalTrees
       => /\ result'.err # Ok
          /\ UNCHANGED <<tables, foreign_keys, trees>>]_vars

----------------------------------------------------------------------------
(* CREATE TABLE and DROP TABLE on a catalog that starts empty.            *)

MaxRecords == 2   \* CREATE TABLE is explored while the keys of @foreign_keys are <= MaxRecords

\* ast::CreateTable as parse_create_table builds it; the parser receives
\* if_not_exists and does not pass it on
CreateTable(name, if_not_exists, columns, nn, us, pk, checks, fks) ==
    [name |-> name, if_not_exists |-> if_not_exists, columns |-> columns,
     not_nulls |-> nn, uniques |-> us, primary_key |-> pk, checks |-> checks,
     foreign_keys |-> fks]

\* contains_unique over the UNIQUE sets alone, without the primary key
contains_unique_constraint(def, column_set) ==
    \E S \in SUBSET (1..Len(column_set)) :
        \E n \in 1..Len(def.uniques) :
            def.uniques[n].columns =
                [j \in 1..Cardinality(S) |-> column_set[sorted_keys(S)[j]]]

\* TableHandler::contains_unique: a set of the powerset of column_set, in
\* its order, is one of the unique sets
contains_unique(def, column_set) ==
    \E S \in SUBSET (1..Len(column_set)) :
        \E n \in 1..Len(uniques(def)) :
            uniques(def)[n].columns =
                [j \in 1..Cardinality(S) |-> column_set[sorted_keys(S)[j]]]

\* the tests of one turn of the `for key in foreign_keys` loop of
\* execute_create_table, before add_key
foreign_key_error(tb, columns, key) ==
    IF key.referred_table \notin DOMAIN tb
    THEN Error("NoTable", key.referred_table)
    ELSE IF \E n \in 1..Len(key.referred_columns) :
                get_index(tb[key.referred_table], key.referred_columns[n]) = 0
    THEN Error("NoColumn", "")
    ELSE IF ~contains_unique(tb[key.referred_table],
                [n \in 1..Len(key.referred_columns) |->
                    get_index(tb[key.referred_table], key.referred_columns[n])])
    THEN Error("ForeignKeyNotUnique", key.name)
    ELSE IF \E n \in 1..Len(key.columns) :
                n <= Len(key.referred_columns)
                /\ ~\E m \in 1..Len(columns) : columns[m].name = key.columns[n]
    THEN Error("NoColumn", "")
    ELSE IF \E n \in 1..Len(key.columns) : \E m \in 1..Len(columns) :
                /\ n <= Len(key.referred_columns)
                /\ columns[m].name = key.columns[n]
                /\ columns[m].type #
                       tb[key.referred_table].columns[
                           get_index(tb[key.referred_table],
                                     key.referred_columns[n])].type
    THEN Error("IncorrectForeignKeyReferredColumnType", "")
    ELSE Ok

\* ForeignKeys::add_key: the record is inserted in @foreign_keys under the
\* next key of that tree
add_key(fks, key, table_name) ==
    tree_insert(fks, generate_next_index(fks), [key EXCEPT !.table = table_name])

\* the `for key in foreign_keys` loop of execute_create_table
RECURSIVE add_keys(_, _, _, _)
add_keys(db, create, keys, e) ==
    IF e # Ok THEN [db EXCEPT !.err = e]
    ELSE IF keys = <<>> THEN db
    ELSE add_keys([db EXCEPT !.foreign_keys =
                      IF foreign_key_error(db.tables, create.columns, Head(keys)) = Ok
                      THEN add_key(@, Head(keys), create.name)
                      ELSE @],
                  create, Tail(keys),
                  foreign_key_error(db.tables, create.columns, Head(keys)))

\* execute_create_table after the loop of the foreign keys returned db: the
\* checks are resolved, then the definition is stored in the directory and
\* the tree of the table is opened
created(db, create) ==
    IF db.err # Ok THEN db
    ELSE IF \E n \in 1..Len(create.checks) :
                ~resolves(create.checks[n].check,
                          TableDefinition(create.columns, <<>>, <<>>, <<>>, <<>>))
    THEN [db EXCEPT !.err = Error("NoColumn", "")]
    ELSE [db EXCEPT
            !.tables = [t \in (DOMAIN db.tables) \cup {create.name} |->
                           IF t = create.name
                           THEN TableDefinition(create.columns, create.not_nulls,
                                                create.uniques, create.primary_key,
                                                create.checks)
                           ELSE db.tables[t]],
            !.trees = [t \in (DOMAIN db.trees) \cup {create.name} |->
                          IF t \in DOMAIN db.trees THEN db.trees[t] ELSE EmptyTree]]

\* Interpreter::execute_create_table
execute_create_table(db, create) ==
    IF create.name \in DOMAIN db.tables
    THEN [db EXCEPT !.err = Error("TableExists", create.name)]
    ELSE IF \E n, m \in 1..Len(create.columns) :
                n # m /\ create.columns[n].name = create.columns[m].name
    THEN [db EXCEPT !.err = Error("ColumnExists", "")]
    ELSE created(add_keys(db, create, create.foreign_keys, Ok), create)

\* CREATE TABLE [IF NOT EXISTS] parent (name string UNIQUE)
CreateParent(if_not_exists) ==
    CreateTable("parent", if_not_exists, <<Column("name", "String", Null)>>, <<>>,
                <<Constraint(<<1>>, "name")>>, <<>>, <<>>, <<>>)

\* CREATE TABLE [IF NOT EXISTS] child (name string, CONSTRAINT fkey
\*   FOREIGN KEY (name) REFERENCES parent(name) [, more])
\* where more is nothing, CONSTRAINT older CHECK (age > 1), or
\* CONSTRAINT other FOREIGN KEY (name) REFERENCES missing(name)
CreateChild(if_not_exists, more) ==
    CreateTable("child", if_not_exists, <<Column("name", "String", Null)>>, <<>>,
                <<>>, <<>>,
                IF more = "check"
                THEN <<[check |-> BinaryOp(Identifier("age"), "Comparison", "Gt",
                                           Value(Integer(1))),
                        name |-> "older"]>>
                ELSE <<>>,
                <<ForeignKey("fkey", "child", <<"name">>, "parent", <<"name">>,
                             NoAction, NoAction)>>
                \o (IF more = "key"
                    THEN <<ForeignKey("other", "child", <<"name">>, "missing",
                                      <<"name">>, NoAction, NoAction)>>
                    ELSE <<>>))

CreateTables ==
    {CreateParent(x) : x \in BOOLEAN}
    \cup {CreateChild(x, more) : x \in BOOLEAN, more \in {"", "check", "key"}}

\* the name lists of DROP TABLE: one or two of parent, child and missing
DropLists ==
    {<<n>> : n \in {"parent", "child", "missing"}}
    \cup {<<n, m>> : n \in {"parent", "child"}, m \in {"parent", "child", "missing"}}

SchemaInit ==
    /\ tables = [t \in {} |-> <<>>]
    /\ foreign_keys = [k \in {} |-> <<>>]
    /\ trees = [t \in {} |-> EmptyTree]
    /\ result = [op |-> "None", table |-> "", keys |-> {}, err |-> Ok]

\* Database::execute_query with one CREATE TABLE statement
Create ==
    \E create \in CreateTables :
        /\ generate_next_index(foreign_keys) + Len(create.foreign_keys) - 1
               <= MaxRecords
        /\ LET r == execute_create_table(Database(tables, foreign_keys, trees, Ok),
                                         create) IN
           /\ tables' = r.tables
           /\ foreign_keys' = r.foreign_keys
           /\ trees' = r.trees
           /\ result' = [op |-> "CreateTable", table |-> create.name, keys |-> {},
                         err |-> r.err, create |-> create]

\* Database::execute_query with one DROP TABLE statement of one or more
\* names
Drop ==
    \E names \in DropLists : \E if_exists \in BOOLEAN :
        LET r == execute_drop_table(names, if_exists) IN
        /\ tables' = r.tables
        /\ foreign_keys' = r.foreign_keys
        /\ trees' = r.trees
        /\ result' = [op |-> "DropTable", table |-> Head(names), keys |-> {},
                      err |-> r.err, names |-> names, if_exists |-> if_exists]

SchemaNext == Create \/ Drop \/ Insert

SchemaSpec == SchemaInit /\ [][SchemaNext]_vars

\* the records of @foreign_keys whose child table is t
records_of(fks, t) == [k \in {j \in DOMAIN fks : fks[j].table = t} |-> fks[k]]

\* C21: after every CREATE TABLE and DROP TABLE statement, succeeding or
\* failing, @foreign_keys holds no record whose child table is not in the
\* catalog, a table that the statement created has exactly one record per
\* FOREIGN KEY it declared, and a table that stays in the catalog keeps its
\* records.
C21_ForeignKeyRecordsMatchCatalog ==
    [][/\ \A k \in DOMAIN foreign_keys' : foreign_keys'[k].table \in DOMAIN tables'
       /\ \A t \in (DOMAIN tables') \ (DOMAIN tables) :
             /\ Cardinality(DOMAIN records_of(foreign_keys', t))
                    = Len(result'.create.foreign_keys)
             /\ \A n \in 1..Len(result'.create.foreign_keys) :
                   \E k \in DOMAIN foreign_keys' :
                       foreign_keys'[k] = result'.create.foreign_keys[n]
       /\ \A t \in (DOMAIN tables') \cap (DOMAIN tables) :
             records_of(foreign_keys', t) = records_of(foreign_keys, t)]_vars

\* C23: CREATE TABLE of a name that is in the catalog changes no
\* definition, no row and no FOREIGN KEY record; it fails with
\* TableExists without IF NOT EXISTS and succeeds with IF NOT EXISTS.
C23_CreateOfExistingTable ==
    [][(result'.op = "CreateTable" /\ result'.table \in DOMAIN tables)
       => /\ UNCHANGED <<tables, foreign_keys, trees>>
          /\ result'.err = IF result'.create.if_not_exists THEN Ok
                           ELSE Error("TableExists", result'.table)]_vars

\* C24: a table leaves the catalog only by a DROP TABLE that names it and
\* succeeds, and enters it only by a CREATE TABLE of its name that
\* succeeds, with no rows; DROP TABLE of names that are not in the catalog
\* fails with NoTable without IF EXISTS and succeeds with IF EXISTS.
C24_UsableBetweenCreateAndDrop ==
    [][/\ \A t \in (DOMAIN tables) \ (DOMAIN tables') :
             /\ result'.op = "DropTable" /\ result'.err = Ok
             /\ \E n \in 1..Len(result'.names) : result'.names[n] = t
       /\ \A t \in (DOMAIN tables') \ (DOMAIN tables) :
             /\ result'.op = "CreateTable" /\ result'.err = Ok
             /\ result'.table = t
             /\ trees'[t] = EmptyTree
       /\ (/\ result'.op = "DropTable"
           /\ \A n \in 1..Len(result'.names) : result'.names[n] \notin DOMAIN tables)
          => /\ result'.err = IF result'.if_exists THEN Ok
                              ELSE Error("NoTable", result'.table)
             /\ UNCHANGED <<tables, trees>>]_vars

----------------------------------------------------------------------------
(* The row keys INSERT assigns, remembered across the statements.         *)

KeyInit ==
    /\ tables = People.tables
    /\ foreign_keys = People.foreign_keys
    /\ trees = [t \in DOMAIN tables |-> EmptyTree]
    /\ result = [op |-> "None", table |-> "", keys |-> {}, err |-> Ok,
                 assigned |-> {}]

\* Database::execute_query with one INSERT statement; keys are the row keys
\* insert_values assigned, assigned are those of the statements so far
InsertKeys ==
    \E t \in DOMAIN tables : \E rows \in ValuesLists(t) :
        /\ generate_next_index(trees[t]) + Len(rows) - 1 <= MaxKey
        /\ LET r == execute_insert(trees, t, rows) IN
           /\ trees' = r.trees
           /\ result' = [op |-> "Insert", table |-> t,
                         keys |-> (DOMAIN r.trees[t]) \ (DOMAIN trees[t]),
                         err |-> r.err,
                         assigned |-> result.assigned
                                      \cup ((DOMAIN r.trees[t]) \ (DOMAIN trees[t]))]
        /\ UNCHANGED <<tables, foreign_keys>>

\* Database::execute_query with one DELETE statement
DeleteKeys ==
    \E t \in DOMAIN tables : \E predicate \in Predicates(t) :
        /\ LET r == execute_delete(trees, t, predicate) IN
           /\ trees' = r.trees
           /\ result' = [op |-> "Delete", table |-> t,
                         keys |-> selected(trees, t, predicate), err |-> r.err,
                         assigned |-> result.assigned]
        /\ UNCHANGED <<tables, foreign_keys>>

KeyNext == InsertKeys \/ DeleteKeys

KeySpec == KeyInit /\ [][KeyNext]_vars

\* C25: over every sequence of INSERT and DELETE statements on a table,
\* each row key that an INSERT assigns is greater than every row key
\* assigned before, so that no key is assigned to two rows.
C25_RowKeysGrow ==
    [][result'.op = "Insert"
       => \A k \in result'.keys : \A j \in result.assigned : k > j]_vars

----------------------------------------------------------------------------
(* Column names resolved over a join (join_handler.rs, table_handler.rs). *)

\* the match on (left_resolved, right_resolved) of Join::resolve_name
resolved_both(left_resolved, right_resolved) ==
    IF left_resolved.err = Ok /\ right_resolved.err = Ok
    THEN [err |-> Error("AmbiguousName", left_resolved.column[2]), column |-> <<>>]
    ELSE IF left_resolved.err = Ok THEN left_resolved
    ELSE IF right_resolved.err = Ok THEN right_resolved
    ELSE left_resolved

\* TableColumns::resolve_name for Join and for TableHandler, of a column
\* name without a table name
RECURSIVE resolve_name(_, _)
resolve_name(join, name) ==
    IF join.kind = "Table"
    THEN (IF get_index(tables[join.table], name) # 0
          THEN [err |-> Ok, column |-> ResolvedColumn(join.table, name)]
          ELSE [err |-> Error("NoColumn", name), column |-> <<>>])
    ELSE resolved_both(resolve_name(join.left, name), resolve_name(join.right, name))

\* CREATE TABLE one (..); CREATE TABLE two (..); CREATE TABLE three (..)
\* where each table has the column name, the column age, or both
ResolveInit ==
    /\ \E columns \in [{"one", "two", "three"} ->
                          {<<"name">>, <<"age">>, <<"name", "age">>}] :
          tables = [t \in {"one", "two", "three"} |->
                       TableDefinition(
                           [n \in 1..Len(columns[t]) |->
                               Column(columns[t][n],
                                      IF columns[t][n] = "name" THEN "String"
                                      ELSE "Integer", Null)],
                           <<>>, <<>>, <<>>, <<>>)]
    /\ foreign_keys = [k \in {} |-> <<>>]
    /\ trees = [t \in DOMAIN tables |-> EmptyTree]
    /\ result = [op |-> "None", table |-> "", keys |-> {}, err |-> Ok]

\* FROM one; FROM one, two; FROM one, two, three; FROM one, (two JOIN three)
FromLists ==
    {TableJoin("one"),
     TableJoins(TableJoin("one"), "Inner", TableJoin("two"), NoConstraint),
     TableJoins(TableJoins(TableJoin("one"), "Inner", TableJoin("two"), NoConstraint),
                "Inner", TableJoin("three"), NoConstraint),
     TableJoins(TableJoin("one"), "Inner",
                TableJoins(TableJoin("two"), "Inner", TableJoin("three"),
                           NoConstraint),
                NoConstraint)}

\* resolve_expression of the projection `name` of SELECT name FROM joins
ResolveName ==
    /\ result.op = "None"
    /\ \E joins \in FromLists : \E name \in {"name", "age", "hobby"} :
          LET r == resolve_name(JoinNew(joins), name) IN
          result' = [op |-> "resolve_name", table |-> joins, keys |-> {},
                     err |-> r.err, name |-> name, column |-> r.column]
    /\ UNCHANGED <<tables, foreign_keys, trees>>

ResolveNext == ResolveName

ResolveSpec == ResolveInit /\ [][ResolveNext]_vars

\* the tables of the join that have the column
Having(joins, name) ==
    {n \in 1..Len(table_names(joins)) :
        get_index(tables[table_names(joins)[n]], name) # 0}

\* C26: a column name without a table name resolves over a join of any
\* number of tables when exactly one of the tables has the column, to
\* that table; when none has it the result is NoColumn, and when two or
\* more have it the result is AmbiguousName.
C26_UnqualifiedNameResolves ==
    result.op = "resolve_name"
    => IF Cardinality(Having(result.table, result.name)) = 0
       THEN result.err = Error("NoColumn", result.name)
       ELSE IF Cardinality(Having(result.table, result.name)) = 1
       THEN /\ result.err = Ok
            /\ \E n \in Having(result.table, result.name) :
                  result.column =
                      ResolvedColumn(table_names(result.table)[n], result.name)
       ELSE result.err = Error("AmbiguousName", result.name)

----------------------------------------------------------------------------
(* Expressions of two literals, evaluated (interpreter.rs, data_types.rs). *)

\* NULL, 0, 5, -3, '5', 'HELLO', '10' and ''
Operands ==
    {Null, Integer(0), Integer(5), Integer(-3), String(<<53>>),
     String(<<72, 69, 76, 76, 79>>), String(<<49, 48>>), String(<<>>)}

\* ast::BinaryOp: And, Or, Comparison(ComparisonOp), Mathematical(MathematicalOp)
Operators ==
    {<<"And", "">>, <<"Or", "">>}
    \cup {<<"Comparison", op>> : op \in {"Eq", "NotEq", "Lt", "Gt", "LtEq", "GtEq"}}
    \cup {<<"Mathematical", op>> :
            op \in {"Add", "Subtract", "Multiply", "Divide", "Modulus"}}

EvaluateInit ==
    /\ tables = People.tables
    /\ foreign_keys = People.foreign_keys
    /\ trees = [t \in DOMAIN tables |-> EmptyTree]
    /\ result = [op |-> "None", table |-> "", keys |-> {}, err |-> Ok]

\* evaluate_expression of left operator right, as in the WHERE clause or
\* the projection of a statement; an Err is the error of the statement
Evaluate ==
    /\ result.op = "None"
    /\ \E left \in Operands : \E right \in Operands : \E operator \in Operators :
          LET expression == BinaryOp(Value(left), operator[1], operator[2],
                                     Value(right))
              value == evaluate_expression(expression, tables["people"], <<>>)
          IN result' = [op |-> "evaluate_expression", table |-> "", keys |-> {},
                        err |-> IF value = ValueError THEN Error("Internal", "")
                                ELSE Ok,
                        expression |-> expression, value |-> value]
    /\ UNCHANGED <<tables, foreign_keys, trees>>

EvaluateNext == Evaluate

EvaluateSpec == EvaluateInit /\ [][EvaluateNext]_vars

Evaluated(class) ==
    result.op = "evaluate_expression" /\ result.expression.class = class

LeftOperand == result.expression.left.value
RightOperand == result.expression.right.value

\* s is before t in the order of the bytes
LexLess(s, t) ==
    \E k \in 1..Len(t) :
        /\ k <= Len(s) + 1
        /\ \A j \in 1..(k - 1) : s[j] = t[j]
        /\ k > Len(s) \/ s[k] < t[k]

\* what a comparison operator makes of `less` and `equal`
Holds(op, less, equal) ==
    CASE op = "Eq" -> equal
      [] op = "NotEq" -> ~equal
      [] op = "Lt" -> less
      [] op = "Gt" -> ~less /\ ~equal
      [] op = "LtEq" -> less \/ equal
      [] op = "GtEq" -> ~less

\* an integer, or a string by the tolerant conversion
AsInteger(v) == IF v.t = "Integer" THEN v.i ELSE string_to_int(v.s)

Truth(p) == IF p THEN Integer(1) ELSE Integer(0)

\* C27: for each of =, <>, <, >, <=, >= the result is Null when an operand
\* is Null; two strings are compared in the order of their bytes and two
\* integers in the order of the integers; a string and an integer are
\* compared as integers after the tolerant conversion of the string.
C27_ComparisonIsThreeValued ==
    Evaluated("Comparison")
    => result.value =
          IF is_null(LeftOperand) \/ is_null(RightOperand) THEN Null
          ELSE IF LeftOperand.t = "String" /\ RightOperand.t = "String"
          THEN Truth(Holds(result.expression.op,
                           LexLess(LeftOperand.s, RightOperand.s),
                           LeftOperand.s = RightOperand.s))
          ELSE Truth(Holds(result.expression.op,
                           AsInteger(LeftOperand) < AsInteger(RightOperand),
                           AsInteger(LeftOperand) = AsInteger(RightOperand)))

\* 'HELLO' < 5 is true
C27_Witness ==
    /\ Evaluated("Comparison") /\ result.expression.op = "Lt"
    /\ LeftOperand = String(<<72, 69, 76, 76, 79>>) /\ RightOperand = Integer(5)
    /\ result.value = Integer(1)

\* C28: AND of two operands is False when an operand is False, True when
\* both are True and Unknown otherwise; OR is True when an operand is True,
\* False when both are False and Unknown otherwise.
C28_KleeneConnectives ==
    (Evaluated("And") \/ Evaluated("Or"))
    => result.value =
          IF result.expression.class = "And"
          THEN (IF "False" \in {get_truth(LeftOperand), get_truth(RightOperand)}
                THEN Integer(0)
                ELSE IF {get_truth(LeftOperand), get_truth(RightOperand)} = {"True"}
                THEN Integer(1)
                ELSE Null)
          ELSE (IF "True" \in {get_truth(LeftOperand), get_truth(RightOperand)}
                THEN Integer(1)
                ELSE IF {get_truth(LeftOperand), get_truth(RightOperand)} = {"False"}
                THEN Integer(0)
                ELSE Null)

\* C29: +, -, *, / and % with a Null operand on either side give Null and
\* no error.
C29_NullOperandGivesNull ==
    (Evaluated("Mathematical") /\ (is_null(LeftOperand) \/ is_null(RightOperand)))
    => result.err = Ok /\ result.value = Null

\* C30: / and % with a right operand that is zero give Null and no error,
\* whatever the left operand is.
C30_DivisionByZeroGivesNull ==
    (/\ Evaluated("Mathematical")
     /\ result.expression.op \in {"Divide", "Modulus"}
     /\ RightOperand = Integer(0))
    => result.err = Ok /\ result.value = Null

----------------------------------------------------------------------------
(* UPDATE with assignments that read the columns of the row.              *)

\* CREATE TABLE numbers (id int, a int, b int)
Numbers ==
    [tables |->
        [t \in {"numbers"} |->
            TableDefinition(<<Column("id", "Integer", Null),
                              Column("a", "Integer", Null),
                              Column("b", "Integer", Null)>>, <<>>,
                            <<>>, <<>>, <<>>)],
     foreign_keys |-> [k \in {} |-> <<>>]]

\* SET a = a * 2;  SET a = b, b = a;  SET b = a + b, id = 2
SetLists ==
    {{[column |-> "a",
       value |-> BinaryOp(Identifier("a"), "Mathematical", "Multiply",
                          Value(Integer(2)))]},
     {[column |-> "a", value |-> Identifier("b")],
      [column |-> "b", value |-> Identifier("a")]},
     {[column |-> "b",
       value |-> BinaryOp(Identifier("a"), "Mathematical", "Add", Identifier("b"))],
      [column |-> "id", value |-> Value(Integer(2))]}}

NumbersInit ==
    /\ tables = Numbers.tables
    /\ foreign_keys = Numbers.foreign_keys
    /\ trees = [t \in DOMAIN tables |-> EmptyTree]
    /\ result = [op |-> "None", table |-> "", keys |-> {}, err |-> Ok]

\* Database::execute_query with one UPDATE statement of SetLists, explored
\* after an INSERT; before is the tree as the statement found it
UpdateNumbers ==
    \E assignments \in SetLists : \E filter \in Predicates("numbers") :
        /\ result.op = "Insert"
        /\ LET r == execute_update(trees, "numbers", assignments, filter) IN
           /\ trees' = r.trees
           /\ result' = [op |-> "Update", table |-> "numbers",
                         keys |-> selected(trees, "numbers", filter), err |-> r.err,
                         assignments |-> assignments, before |-> trees["numbers"]]
        /\ UNCHANGED <<tables, foreign_keys>>

NumbersNext == Insert \/ UpdateNumbers

NumbersSpec == NumbersInit /\ [][NumbersNext]_vars

\* the value of column n of a row after the assignments, each expression
\* read on the row as it was
Assigned(assignments, def, row, n) ==
    IF \E x \in assignments : x.column = def.columns[n].name
    THEN cast(evaluate_expression(
                (CHOOSE x \in assignments : x.column = def.columns[n].name).value,
                def, row),
              def.columns[n].type)
    ELSE row[n]

\* C31: after an UPDATE, every row the WHERE clause matched holds, in each
\* assigned column, the value of its expression on the row as it was before
\* the statement, and in every other column what it held; the other rows
\* are as they were, and no row is added or removed.
C31_AssignmentsReadTheOldRow ==
    (result.op = "Update" /\ result.err = Ok)
    => /\ DOMAIN trees[result.table] = DOMAIN result.before
       /\ \A k \in DOMAIN result.before :
             trees[result.table][k] =
                IF k \in result.keys
                THEN [n \in 1..num_columns(tables[result.table]) |->
                         Assigned(result.assignments, tables[result.table],
                                  result.before[k], n)]
                ELSE result.before[k]

\* SET a = b, b = a exchanged 1 and 2 in one row while SET a = a * 2 would
\* have made 2 of 1: the row (1, 1, 2) is now (1, 2, 1)
C31_Witness ==
    /\ result.op = "Update" /\ result.err = Ok
    /\ \E x \in result.assignments : x.column = "a" /\ x.value = Identifier("b")
    /\ \E k \in result.keys :
          /\ result.before[k][2] = Integer(1) /\ result.before[k][3] = Integer(2)
          /\ trees["numbers"][k][2] = Integer(2) /\ trees["numbers"][k][3] = Integer(1)

----------------------------------------------------------------------------
(* Strings cast to Integer (data_types.rs).  IntMax stands for i64::MAX.  *)

\* "", "0", "7", "42", "007", i64::MAX, i64::MAX + 1, i64::MAX + 3 and a
\* number of one digit more, as digits
DigitStrings ==
    {<<>>, <<48>>, <<55>>, <<52, 50>>, <<48, 48, 55>>,
     <<50, 49, 52, 55, 52, 56, 51, 54, 52, 55>>,
     <<50, 49, 52, 55, 52, 56, 51, 54, 52, 56>>,
     <<48, 50, 49, 52, 55, 52, 56, 51, 54, 53, 48>>,
     <<57, 57, 57, 57, 57, 57, 57, 57, 57, 57, 57>>}

\* whitespace, then an optional '-', then digits, then "", "x", "x9", " 5",
\* "-3" or "+1"
CastStrings ==
    {space \o sign \o digits \o rest :
        space \in {<<>>, <<32>>, <<9, 32>>}, sign \in {<<>>, <<45>>},
        digits \in DigitStrings,
        rest \in {<<>>, <<120>>, <<120, 57>>, <<32, 53>>, <<45, 51>>, <<43, 49>>}}

CastInit ==
    /\ tables = People.tables
    /\ foreign_keys = People.foreign_keys
    /\ trees = [t \in DOMAIN tables |-> EmptyTree]
    /\ \E string \in CastStrings :
          result = [op |-> "None", table |-> "", keys |-> {}, err |-> Ok,
                    string |-> string, value |-> Null]

\* Value::cast(&Type::Integer) of the string
Cast ==
    /\ result.op = "None"
    /\ result' = [result EXCEPT !.op = "cast",
                                !.value = cast(String(result.string), "Integer")]
    /\ UNCHANGED <<tables, foreign_keys, trees>>

CastNext == Cast

CastSpec == CastInit /\ [][CastNext]_vars

\* the position of the first byte of s that is not whitespace
FirstAfterSpace(s) ==
    CHOOSE i \in 1..(Len(s) + 1) :
        /\ \A j \in 1..(i - 1) : IsWhitespace(s[j])
        /\ i <= Len(s) => ~IsWhitespace(s[i])

Negative(s) == FirstAfterSpace(s) <= Len(s) /\ s[FirstAfterSpace(s)] = 45

\* the digits of s that follow the whitespace and the sign, up to the first
\* byte that is not a digit
DigitsOf(s) ==
    LET from == FirstAfterSpace(s) + (IF Negative(s) THEN 1 ELSE 0)
        to == CHOOSE j \in (from - 1)..Len(s) :
                  /\ \A k \in from..j : IsDigit(s[k])
                  /\ j < Len(s) => ~IsDigit(s[j + 1])
    IN SubSeq(s, from, to)

\* digits without the zeros on the left
RECURSIVE Significant(_)
Significant(ds) ==
    IF ds # <<>> /\ Head(ds) = 48 THEN Significant(Tail(ds)) ELSE ds

\* the digits denote a number above IntMax: more digits than IntMax has,
\* or as many and a greater digit where they first differ
Beyond(ds) ==
    \/ Len(Significant(ds)) > Len(int_to_string(IntMax))
    \/ /\ Len(Significant(ds)) = Len(int_to_string(IntMax))
       /\ \E k \in 1..Len(Significant(ds)) :
             /\ \A j \in 1..(k - 1) : Significant(ds)[j] = int_to_string(IntMax)[j]
             /\ Significant(ds)[k] > int_to_string(IntMax)[k]

\* the number the digits denote
RECURSIVE Decimal(_)
Decimal(ds) ==
    IF ds = <<>> THEN 0
    ELSE Decimal(SubSeq(ds, 1, Len(ds) - 1)) * 10 + (ds[Len(ds)] - 48)

\* C32: the cast of a string to Integer always gives an Integer: whitespace
\* on the left is skipped, one '-' is taken as the sign, the digits that
\* follow are read and the rest is ignored; a number beyond the range gives
\* the greatest Integer, or the least when the sign is '-'; no digit gives 0.
C32_StringToIntegerIsTolerant ==
    result.op = "cast"
    => result.value =
          IF Beyond(DigitsOf(result.string))
          THEN Integer(IF Negative(result.string) THEN IntMin ELSE IntMax)
          ELSE Integer(IF Negative(result.string)
                       THEN -Decimal(DigitsOf(result.string))
                       ELSE Decimal(DigitsOf(result.string)))

\* "\t -99999999999x9" gives the least Integer
C32_Witness ==
    /\ result.op = "cast"
    /\ result.string = <<9, 32, 45, 57, 57, 57, 57, 57, 57, 57, 57, 57, 57, 57, 120, 57>>
    /\ result.value = Integer(IntMin)

----------------------------------------------------------------------------
(* ORDER BY (relation.rs).                                                *)

MaxSortRows == 3   \* rows of the relation that is sorted

\* ast::OrderBy after Relation::sort found the index of its column
OrderBy(index, direction, nulls_first) ==
    [index |-> index, direction |-> direction, nulls_first |-> nulls_first]

\* Ordering::reverse
reverse(order) ==
    IF order = "Less" THEN "Greater" ELSE IF order = "Greater" THEN "Less" ELSE order

\* one turn of the loop of the closure given to sort_unstable_by: the
\* Ordering of rows x and y on one column of the ORDER BY list
order_on(x, y, o) ==
    LET order ==
            IF is_null(x[o.index]) /\ is_null(y[o.index]) THEN "Equal"
            ELSE IF is_null(x[o.index])
            THEN (IF o.nulls_first THEN "Greater" ELSE "Less")
            ELSE IF is_null(y[o.index])
            THEN (IF o.nulls_first THEN "Less" ELSE "Greater")
            ELSE IF compare(x[o.index], y[o.index]) = "LessThan" THEN "Less"
            ELSE IF compare(x[o.index], y[o.index]) = "Equal" THEN "Equal"
            ELSE "Greater"
    IN IF o.direction = "Descending" THEN reverse(order) ELSE order

\* the closure given to sort_unstable_by: the first Ordering of the list
\* that is not Equal
RECURSIVE sort_order(_, _, _)
sort_order(x, y, order_by) ==
    IF order_by = <<>> THEN "Equal"
    ELSE IF order_on(x, y, Head(order_by)) # "Equal"
    THEN order_on(x, y, Head(order_by))
    ELSE sort_order(x, y, Tail(order_by))

\* Relation::sort: the orders of the rows that sort_unstable_by can leave,
\* which does not say where rows that compare Equal go
sort(rows, order_by) ==
    IF order_by = <<>> THEN {rows}
    ELSE {[n \in 1..Len(rows) |-> rows[p[n]]] :
            p \in {q \in [1..Len(rows) -> 1..Len(rows)] :
                     /\ \A i, j \in 1..Len(rows) : i # j => q[i] # q[j]
                     /\ \A i \in 1..(Len(rows) - 1) :
                           sort_order(rows[q[i]], rows[q[i + 1]], order_by)
                               # "Greater"}}

\* the rows SELECT a, b gathered: up to MaxSortRows rows of NULL, 1 or 2
\* and NULL or 1
SortInit ==
    /\ tables = Numbers.tables
    /\ foreign_keys = Numbers.foreign_keys
    /\ trees = [t \in DOMAIN tables |-> EmptyTree]
    /\ \E n \in 1..MaxSortRows :
          \E rows \in [1..n -> {<<u, v>> : u \in {Null, Integer(1), Integer(2)},
                                           v \in {Null, Integer(1)}}] :
              result = [op |-> "None", table |-> "", keys |-> {}, err |-> Ok,
                        rows |-> rows, before |-> rows, order_by |-> <<>>]

\* ORDER BY a [ASC | DESC] [NULLS FIRST] and ORDER BY a .., b ..
OrderByLists ==
    {<<OrderBy(1, d, nf)>> : d \in {"Ascending", "Descending"}, nf \in BOOLEAN}
    \cup {<<OrderBy(1, d, nf), OrderBy(2, e, mf)>> :
            d \in {"Ascending", "Descending"}, nf \in BOOLEAN,
            e \in {"Ascending", "Descending"}, mf \in BOOLEAN}

\* Relation::sort on the gathered rows
Sort ==
    /\ result.op = "None"
    /\ \E order_by \in OrderByLists : \E sorted \in sort(result.rows, order_by) :
          result' = [result EXCEPT !.op = "sort", !.rows = sorted,
                                   !.order_by = order_by]
    /\ UNCHANGED <<tables, foreign_keys, trees>>

SortNext == Sort

SortSpec == SortInit /\ [][SortNext]_vars

\* x collates before y on one column of the list: Null is greater than
\* every other value, smaller with NULLS FIRST, and DESC turns the order
CollatesBefore(x, y, o) ==
    LET smaller(u, v) ==
            IF is_null(u) THEN o.nulls_first /\ ~is_null(v)
            ELSE IF is_null(v) THEN ~o.nulls_first
            ELSE u.i < v.i
    IN IF o.direction = "Descending" THEN smaller(y, x) ELSE smaller(x, y)

\* row r comes before row s in the order of the list
RECURSIVE RowBefore(_, _, _)
RowBefore(r, s, order_by) ==
    /\ order_by # <<>>
    /\ \/ CollatesBefore(r[Head(order_by).index], s[Head(order_by).index],
                         Head(order_by))
       \/ /\ ~CollatesBefore(s[Head(order_by).index], r[Head(order_by).index],
                             Head(order_by))
          /\ RowBefore(r, s, Tail(order_by))

\* C33: ORDER BY returns the gathered rows, each as often as it was
\* gathered, in an order in which no row comes after a row it is before by
\* the listed columns and directions, where Null is greater than every
\* other value by default and smaller with NULLS FIRST.
C33_OrderByCollatesNullGreater ==
    result.op = "sort"
    => /\ Len(result.rows) = Len(result.before)
       /\ \A r \in Range(result.before) :
             Cardinality({n \in DOMAIN result.rows : result.rows[n] = r})
                 = Cardinality({n \in DOMAIN result.before : result.before[n] = r})
       /\ \A i, j \in DOMAIN result.rows :
             i < j => ~RowBefore(result.rows[j], result.rows[i], result.order_by)

----------------------------------------------------------------------------
(* CREATE TABLE with a FOREIGN KEY (interpreter.rs, table_handler.rs).    *)

\* CREATE TABLE parent (name string, age int [, constraint]) where the
\* constraint is UNIQUE (name), PRIMARY KEY (name), UNIQUE (name, age) or
\* UNIQUE (age)
Referred(constraint) ==
    CreateTable("parent", FALSE,
                <<Column("name", "String", Null), Column("age", "Integer", Null)>>,
                <<>>,
                IF constraint = "name" THEN <<Constraint(<<1>>, "name")>>
                ELSE IF constraint = "name, age"
                THEN <<Constraint(<<1, 2>>, "name, age")>>
                ELSE IF constraint = "age" THEN <<Constraint(<<2>>, "age")>>
                ELSE <<>>,
                IF constraint = "primary" THEN <<Constraint(<<1>>, "name")>>
                ELSE <<>>,
                <<>>, <<>>)

\* CREATE TABLE child (name string, age int, CONSTRAINT fkey
\*   FOREIGN KEY (column) REFERENCES table(referred_column))
Referring(column, table, referred_column) ==
    CreateTable("child", FALSE,
                <<Column("name", "String", Null), Column("age", "Integer", Null)>>,
                <<>>, <<>>, <<>>, <<>>,
                <<ForeignKey("fkey", "child", <<column>>, table, <<referred_column>>,
                             NoAction, NoAction)>>)

KeyedTables ==
    {Referred(c) : c \in {"", "name", "primary", "name, age", "age"}}
    \cup {Referring(c, t, r) : c \in {"name", "age"},
                               t \in {"parent", "child", "missing"},
                               r \in {"name", "age"}}

\* Database::execute_query with one CREATE TABLE statement of KeyedTables
CreateKeyed ==
    \E create \in KeyedTables :
        /\ generate_next_index(foreign_keys) + Len(create.foreign_keys) - 1
               <= MaxRecords
        /\ LET r == execute_create_table(Database(tables, foreign_keys, trees, Ok),
                                         create) IN
           /\ tables' = r.tables
           /\ foreign_keys' = r.foreign_keys
           /\ trees' = r.trees
           /\ result' = [op |-> "CreateTable", table |-> create.name, keys |-> {},
                         err |-> r.err, create |-> create, before |-> tables]

KeyedNext == CreateKeyed

KeyedSpec == SchemaInit /\ [][KeyedNext]_vars

\* the foreign key of the statement
CreatedKey == result.create.foreign_keys[1]

\* the parent of the key existed when the statement ran
ParentExists == CreatedKey.referred_table \in DOMAIN result.before

\* the definition of the column of that name in a column list
ColumnNamed(columns, name) ==
    CHOOSE c \in Range(columns) : c.name = name

\* the referred column alone is a UNIQUE set or the PRIMARY KEY of the parent
ReferredIsUnique ==
    LET def == result.before[CreatedKey.referred_table] IN
    \E n \in 1..Len(def.columns) :
        /\ def.columns[n].name = CreatedKey.referred_columns[1]
        /\ \/ \E u \in Range(def.uniques) : u.columns = <<n>>
           \/ \E p \in Range(def.primary_key) : p.columns = <<n>>

\* the column of the key has the type of the referred column
SameType ==
    ColumnNamed(result.create.columns, CreatedKey.columns[1]).type
        = ColumnNamed(result.before[CreatedKey.referred_table].columns,
                      CreatedKey.referred_columns[1]).type

\* the statement stored the table
TableCreated ==
    /\ result.err = Ok
    /\ result.table \in DOMAIN tables
    /\ result.table \in DOMAIN trees

\* the statement failed with that error and stored no table
Refused(kind) ==
    /\ result.err.kind = kind
    /\ result.table \notin DOMAIN tables
    /\ result.table \notin DOMAIN trees

\* C34: a CREATE TABLE of a new table with a FOREIGN KEY stores the table
\* when the parent exists, the referred column is a UNIQUE set or the
\* PRIMARY KEY of the parent and the column of the key has the type of the
\* referred column; it fails with NoTable when the parent does not exist,
\* else with ForeignKeyNotUnique when the referred column is not unique,
\* else with IncorrectForeignKeyReferredColumnType when the types
\* differ, and then the table is not stored.
C34_ForeignKeyIsValidated ==
    (/\ result.op = "CreateTable"
     /\ result.create.foreign_keys # <<>>
     /\ result.table \notin DOMAIN result.before)
    => IF ~ParentExists THEN Refused("NoTable")
       ELSE IF ~ReferredIsUnique THEN Refused("ForeignKeyNotUnique")
       ELSE IF ~SameType THEN Refused("IncorrectForeignKeyReferredColumnType")
       ELSE TableCreated

\* child was stored with a key that refers to the PRIMARY KEY of parent
C34_Witness ==
    /\ result.op = "CreateTable"
    /\ result.table = "child"
    /\ result.table \notin DOMAIN result.before
    /\ ParentExists
    /\ result.before["parent"].primary_key # <<>>
    /\ TableCreated

----------------------------------------------------------------------------
(* INSERT with a column list and rows of any length (interpreter.rs).     *)

\* ExecutionError::WrongNumColumns { expected, actual }
WrongNumColumns(expected, actual) ==
    [kind |-> "WrongNumColumns", name |-> "", expected |-> expected,
     actual |-> actual]

\* the SelectQuery::Values arm of execute_select: the relation has as many
\* columns as the first row, and Relation::add_row reports, for a row of
\* another length, the number of rows the relation holds so far
values_relation(rows) ==
    IF \E n \in 1..Len(rows) : Len(rows[n]) # Len(rows[1])
    THEN [err |-> WrongNumColumns(Len(rows[1]),
                      (CHOOSE n \in 1..Len(rows) :
                          /\ Len(rows[n]) # Len(rows[1])
                          /\ \A m \in 1..(n - 1) : Len(rows[m]) = Len(rows[1])) - 1),
          num_columns |-> Len(rows[1]), rows |-> <<>>]
    ELSE [err |-> Ok, num_columns |-> Len(rows[1]), rows |-> rows]

\* RowBuilder::new, RowBuilder::insert for each pair of the zip and
\* RowBuilder::finalise: the columns that were not inserted hold their
\* default; <<>> stands for the NoColumn error of insert
built_row(def, specified_columns, row) ==
    IF \E n \in 1..Len(specified_columns) : get_index(def, specified_columns[n]) = 0
    THEN <<>>
    ELSE [i \in 1..num_columns(def) |->
             IF \E n \in 1..Len(specified_columns) :
                    get_index(def, specified_columns[n]) = i
             THEN row[CHOOSE n \in 1..Len(specified_columns) :
                         /\ get_index(def, specified_columns[n]) = i
                         /\ \A m \in (n + 1)..Len(specified_columns) :
                               get_index(def, specified_columns[m]) # i]
             ELSE def.columns[i].default]

\* the `for row in values.take_rows()` loop of execute_insert; <<>> for
\* specified_columns stands for None
RECURSIVE insert_rows(_, _, _, _)
RECURSIVE next_row(_, _, _, _)
insert_rows(tr, t, specified_columns, rows) ==
    IF rows = <<>> THEN Done(tr)
    ELSE IF specified_columns = <<>>
    THEN next_row(insert_values(tr, t, Head(rows)), t, specified_columns, Tail(rows))
    ELSE IF built_row(tables[t], specified_columns, Head(rows)) = <<>>
    THEN Failed(tr, Error("NoColumn", ""))
    ELSE next_row(insert_values(tr, t,
                      built_row(tables[t], specified_columns, Head(rows))),
                  t, specified_columns, Tail(rows))

next_row(r, t, specified_columns, rows) ==
    IF r.err # Ok THEN r ELSE insert_rows(r.trees, t, specified_columns, rows)

\* Interpreter::execute_insert for INSERT INTO t [(specified_columns)]
\* VALUES rows
execute_insert_values(tr, t, specified_columns, rows) ==
    LET values == values_relation(rows) IN
    IF t \notin DOMAIN tables THEN Failed(tr, Error("NoTable", t))
    ELSE IF values.err # Ok THEN Failed(tr, values.err)
    ELSE IF specified_columns # <<>> /\ values.num_columns # Len(specified_columns)
    THEN Failed(tr, WrongNumColumns(Len(specified_columns), values.num_columns))
    ELSE IF specified_columns = <<>> /\ values.num_columns # num_columns(tables[t])
    THEN Failed(tr, WrongNumColumns(num_columns(tables[t]), values.num_columns))
    ELSE insert_rows(tr, t, specified_columns, values.rows)

\* CREATE TABLE people (name string, age int)
ValuesInit ==
    /\ tables = People.tables
    /\ foreign_keys = People.foreign_keys
    /\ trees = [t \in DOMAIN tables |-> EmptyTree]
    /\ result = [op |-> "None", table |-> "", keys |-> {}, err |-> Ok]

\* the rows of one to three values: 'a' or 'b', then 1, then 'b'
RaggedRows ==
    {SubSeq(<<v, Integer(1), String(b)>>, 1, n) : v \in {String(a), String(b)},
                                                  n \in 1..3}

\* the column lists: none, (name), (name, age), (age, name), (hobby)
ColumnLists == {<<>>, <<"name">>, <<"name", "age">>, <<"age", "name">>, <<"hobby">>}

\* Database::execute_query with one INSERT statement with or without a
\* column list
InsertValues ==
    /\ result.op = "None"
    /\ \E specified_columns \in ColumnLists :
         \E n \in 1..MaxStmtRows : \E rows \in [1..n -> RaggedRows] :
           LET r == execute_insert_values(trees, "people", specified_columns, rows) IN
           /\ trees' = r.trees
           /\ result' = [op |-> "Insert", table |-> "people", keys |-> {},
                         err |-> r.err, columns |-> specified_columns,
                         rows |-> rows, before |-> trees]
    /\ UNCHANGED <<tables, foreign_keys>>

ValuesNext == InsertValues

ValuesSpec == ValuesInit /\ [][ValuesNext]_vars

\* the number of values the statement must give in each row
ExpectedValues ==
    IF result.columns = <<>> THEN num_columns(tables[result.table])
    ELSE Len(result.columns)

\* C35: an INSERT with a row whose number of values differs from the number
\* of columns of the table, or with a column list from the number of names
\* of the list, fails with WrongNumColumns that reports that number as
\* expected and the number of values of such a row as actual, and stores
\* no row.
C35_WrongNumberOfValues ==
    (/\ result.op = "Insert"
     /\ \E n \in DOMAIN result.rows : Len(result.rows[n]) # ExpectedValues)
    => /\ result.err.kind = "WrongNumColumns"
       /\ result.err.expected = ExpectedValues
       /\ \E n \in DOMAIN result.rows :
             /\ Len(result.rows[n]) # ExpectedValues
             /\ result.err.actual = Len(result.rows[n])
       /\ trees = result.before

----------------------------------------------------------------------------
(* The layout of an encoded row (storage.rs).                             *)

\* the columns of the row of that kind, in the order of the schema
ColumnsOfType(type) ==
    sorted_keys({n \in 1..num_columns(tables["row"]) :
                    tables["row"].columns[n].type = type})

\* the concatenation of the byte strings of a sequence
RECURSIVE Concat(_)
Concat(parts) == IF parts = <<>> THEN <<>> ELSE Head(parts) \o Concat(Tail(parts))

\* each Integer column as eight big-endian bytes, zero for Null
FixedSection(data) ==
    Concat([j \in 1..Len(ColumnsOfType("Integer")) |->
               IF data[ColumnsOfType("Integer")[j]] = Null THEN [k \in 1..8 |-> 0]
               ELSE i64_to_be_bytes(data[ColumnsOfType("Integer")[j]].i)])

\* bit index % 8 of byte index \div 8 is 1 iff that Integer column is not Null
NullBitmap(data) ==
    [byte \in 1..((Len(ColumnsOfType("Integer")) + 7) \div 8) |->
        LET bit(k) ==
                IF 8 * (byte - 1) + k + 1 <= Len(ColumnsOfType("Integer"))
                   /\ data[ColumnsOfType("Integer")[8 * (byte - 1) + k + 1]] # Null
                THEN 2 ^ k ELSE 0
        IN bit(0) + bit(1) + bit(2) + bit(3) + bit(4) + bit(5) + bit(6) + bit(7)]

\* the bytes of the String columns one after the other
Payloads(data) ==
    Concat([j \in 1..Len(ColumnsOfType("String")) |->
               data[ColumnsOfType("String")[j]].s])

\* one u16 per String column: where its bytes begin in the row, 0 for Null
Directory(data) ==
    Concat([j \in 1..Len(ColumnsOfType("String")) |->
               IF data[ColumnsOfType("String")[j]] = Null THEN <<0, 0>>
               ELSE u16_to_be_bytes(
                        8 * Len(ColumnsOfType("Integer"))
                        + 2 * Len(ColumnsOfType("String"))
                        + ((Len(ColumnsOfType("Integer")) + 7) \div 8)
                        + Len(Concat([i \in 1..(j - 1) |->
                                  data[ColumnsOfType("String")[i]].s])))])

\* C36: an encoded row is the fixed-size section, then the directory of
\* the String columns, then the null bitmap of the Integer columns, then
\* the bytes of the String columns in the order of the schema.
C36_RowLayoutIsFixedDirectoryBitmapPayloads ==
    (result.op = "generate_row" /\ result.err = Ok)
    => result.row = FixedSection(result.data) \o Directory(result.data)
                        \o NullBitmap(result.data) \o Payloads(result.data)

----------------------------------------------------------------------------
(* The order of the constraint checks (table_handler.rs).                 *)

\* CREATE TABLE parent (name string UNIQUE);
\* CREATE TABLE child (name string NOT NULL, age int UNIQUE,
\*   CONSTRAINT older CHECK (age > 1),
\*   CONSTRAINT fkey FOREIGN KEY (name) REFERENCES parent(name))
\* or, when pk is TRUE, with name string PRIMARY KEY
AllKinds(pk) ==
    [tables |->
        [t \in {"parent", "child"} |->
            IF t = "parent"
            THEN TableDefinition(<<Column("name", "String", Null)>>, <<>>,
                                 <<Constraint(<<1>>, "name")>>, <<>>, <<>>)
            ELSE TableDefinition(<<Column("name", "String", Null),
                                   Column("age", "Integer", Null)>>,
                                 IF pk THEN <<>> ELSE <<1>>,
                                 <<Constraint(<<2>>, "age")>>,
                                 IF pk THEN <<Constraint(<<1>>, "key")>> ELSE <<>>,
                                 <<[check |-> BinaryOp(Identifier("age"), "Comparison",
                                                       "Gt", Value(Integer(1))),
                                    name |-> "older"]>>)],
     foreign_keys |->
        [k \in {0} |-> ForeignKey("fkey", "child", <<"name">>, "parent", <<"name">>,
                                  NoAction, NoAction)]]

CheckRowInit ==
    /\ \E pk \in BOOLEAN :
          /\ tables = AllKinds(pk).tables
          /\ foreign_keys = AllKinds(pk).foreign_keys
    /\ trees = [t \in DOMAIN tables |-> EmptyTree]
    /\ result = [op |-> "None", table |-> "", keys |-> {}, err |-> Ok]

\* the rows of INSERT INTO parent VALUES (name), of
\* INSERT INTO pairs VALUES (p, q, r) and of INSERT INTO child VALUES (name, age)
CandidateRows(t) ==
    IF t = "parent" THEN {<<String(a)>>, <<String(b)>>}
    ELSE IF t = "pairs"
    THEN {<<p, q, r>> : p \in {Null, Integer(1)}, q \in {Null, Integer(1)},
                        r \in {Null, Integer(1)}}
    ELSE {<<n, g>> : n \in {Null, String(a), String(b)},
                     g \in {Integer(1), Integer(2), Integer(3)}}

\* Database::execute_query with one INSERT statement of one row
InsertRow ==
    \E t \in DOMAIN tables : \E row \in CandidateRows(t) :
        /\ generate_next_index(trees[t]) <= MaxKey
        /\ LET r == execute_insert(trees, t, <<row>>) IN
           /\ trees' = r.trees
           /\ result' = [op |-> "Insert", table |-> t, keys |-> {}, err |-> r.err,
                         row |-> row, before |-> trees]
        /\ UNCHANGED <<tables, foreign_keys>>

CheckRowNext == InsertRow

CheckRowSpec == CheckRowInit /\ [][CheckRowNext]_vars

\* the kinds of constraint of child that the row of the statement violates
\* on the rows stored before it
ViolatesCheck == result.row[2].i <= 1

ViolatesNotNull == result.row[1] = Null

ViolatesUnique ==
    \E k \in DOMAIN result.before["child"] :
        \/ result.before["child"][k][2] = result.row[2]
        \/ /\ tables["child"].primary_key # <<>>
           /\ result.row[1] # Null
           /\ result.before["child"][k][1] = result.row[1]

ViolatesForeignKey ==
    /\ result.row[1] # Null
    /\ \A k \in DOMAIN result.before["parent"] :
          result.before["parent"][k][1] # result.row[1]

\* C37: an INSERT of a row that violates one or more constraints fails
\* with the error of the first kind it violates in the order CHECK,
\* NOT NULL and the columns of the primary key, UNIQUE and the primary key,
\* FOREIGN KEY.
C37_FirstFailureInFixedOrder ==
    (result.op = "Insert" /\ result.table = "child")
    => result.err.kind =
          IF ViolatesCheck THEN "CheckConstraintFailed"
          ELSE IF ViolatesNotNull THEN "NullConstraintFailed"
          ELSE IF ViolatesUnique THEN "UniqueConstraintFailed"
          ELSE IF ViolatesForeignKey THEN "ForeignKeyConstraintFailed"
          ELSE "Ok"

\* a row without a name whose age is stored already, and that has no
\* parent, reported as the NOT NULL failure of the primary key
C37_Witness ==
    /\ result.op = "Insert" /\ result.table = "child"
    /\ tables["child"].primary_key # <<>>
    /\ ViolatesNotNull /\ ViolatesUnique /\ ~ViolatesCheck
    /\ result.err = Error("NullConstraintFailed", "key")

----------------------------------------------------------------------------
(* UNIQUE sets and Null (table_handler.rs, data_types.rs).                *)

\* CREATE TABLE pairs (p int UNIQUE, q int, r int,
\*   CONSTRAINT pair UNIQUE (q, r))
Pairs ==
    [tables |->
        [t \in {"pairs"} |->
            TableDefinition(<<Column("p", "Integer", Null),
                              Column("q", "Integer", Null),
                              Column("r", "Integer", Null)>>, <<>>,
                            <<Constraint(<<1>>, "p"), Constraint(<<2, 3>>, "pair")>>,
                            <<>>, <<>>)],
     foreign_keys |-> [k \in {} |-> <<>>]]

PairsInit ==
    /\ tables = Pairs.tables
    /\ foreign_keys = Pairs.foreign_keys
    /\ trees = [t \in DOMAIN tables |-> EmptyTree]
    /\ result = [op |-> "None", table |-> "", keys |-> {}, err |-> Ok]

\* SET c = NULL, SET c = 1 and SET c = c for each column c of pairs
PairSets ==
    {{[column |-> c, value |-> v]} :
        <<c, v>> \in {<<c, v>> \in {"p", "q", "r"} \X
                         {Value(Null), Value(Integer(1)), Identifier("p"),
                          Identifier("q"), Identifier("r")} :
                      v.kind = "Identifier" => v.column = c}}

\* no WHERE clause, WHERE p = 1, WHERE q = 1
PairFilters ==
    {Value(Integer(1)),
     BinaryOp(Identifier("p"), "Comparison", "Eq", Value(Integer(1))),
     BinaryOp(Identifier("q"), "Comparison", "Eq", Value(Integer(1)))}

\* Database::execute_query with one UPDATE statement on pairs; before is
\* the trees as the statement found them
UpdatePairs ==
    \E assignments \in PairSets : \E filter \in PairFilters :
        /\ LET r == execute_update(trees, "pairs", assignments, filter) IN
           /\ trees' = r.trees
           /\ result' = [op |-> "Update", table |-> "pairs",
                         keys |-> selected(trees, "pairs", filter), err |-> r.err,
                         assignments |-> assignments, before |-> trees]
        /\ UNCHANGED <<tables, foreign_keys>>

PairsNext == InsertRow \/ UpdatePairs

PairsSpec == PairsInit /\ [][PairsNext]_vars

\* the statement checked one row: an INSERT, or an UPDATE of one row
OneCandidate ==
    \/ result.op = "Insert"
    \/ result.op = "Update" /\ Cardinality(result.keys) = 1

\* the row the statement checked
Candidate ==
    IF result.op = "Insert" THEN result.row
    ELSE [n \in 1..3 |->
             Assigned(result.assignments, tables["pairs"],
                      result.before["pairs"][CHOOSE k \in result.keys : TRUE], n)]

\* the rows stored before the statement, without the row it updates
Others ==
    {result.before["pairs"][k] :
        k \in (DOMAIN result.before["pairs"])
                  \ (IF result.op = "Update" THEN result.keys ELSE {})}

\* the UNIQUE sets in which the candidate holds no Null and equals one of
\* the other rows in every column
Conflicts ==
    {u \in Range(tables["pairs"].uniques) :
        \E other \in Others : \A n \in DOMAIN u.columns :
            /\ Candidate[u.columns[n]] # Null
            /\ Candidate[u.columns[n]] = other[u.columns[n]]}

\* C38: an INSERT of a row and an UPDATE of one row fail with
\* UniqueConstraintFailed exactly when, in some UNIQUE set, the new row
\* holds no Null and equals a stored row other than the updated one in
\* every column of the set, and then the error names such a set; a Null in
\* a column of the set, or the old values of the updated row, make no
\* conflict.
C38_NullNeverConflicts ==
    OneCandidate
    => IF Conflicts = {} THEN result.err = Ok
       ELSE /\ result.err.kind = "UniqueConstraintFailed"
            /\ \E u \in Conflicts : result.err.name = u.name

\* SET p = NULL on the row of p = 1 succeeded while another row holds Null
\* in p
C38_Witness ==
    /\ result.op = "Update" /\ Cardinality(result.keys) = 1
    /\ result.err = Ok
    /\ Candidate[1] = Null
    /\ \E other \in Others : other[1] = Null
    /\ \A k \in result.keys : result.before["pairs"][k][1] = Integer(1)

----------------------------------------------------------------------------
(* The order of the writes of a DELETE with referential actions           *)
(* (table_handler.rs, foreign_key.rs).                                    *)

\* parent and child of CheckedChild with ON DELETE SET DEFAULT, or of
\* ParentChild with ON DELETE CASCADE
CascadeInit ==
    /\ \E c \in {CheckedChild(SetDefault), ParentChild(Cascade, NoAction)} :
          tables = c.tables /\ foreign_keys = c.foreign_keys
    /\ trees = [t \in DOMAIN tables |-> EmptyTree]
    /\ result = [op |-> "None", table |-> "", keys |-> {}, err |-> Ok]

CascadeNext == Insert \/ Delete

CascadeSpec == CascadeInit /\ [][CascadeNext]_vars

\* the keys of the child rows of fk that the statement removed or rewrote
Touched(fk) ==
    {k \in DOMAIN trees[fk.table] :
        \/ k \notin DOMAIN trees'[fk.table]
        \/ trees'[fk.table][k] # trees[fk.table][k]}

\* C39: whatever the outcome of a DELETE on a parent table, a child row is
\* removed or rewritten by the action of a foreign key only when a parent
\* row with its values in the referred columns has been removed: the
\* removal of the parent row is stored before the writes to its child rows.
C39_ParentRowRemovedFirst ==
    [][result'.op = "Delete"
       => \A fk \in DeclaredKeys :
            (fk.referred_table = result'.table /\ fk.on_delete # NoAction)
            => \A k \in Touched(fk) :
                  \E p \in Removed(fk) :
                      Projection(fk.table, fk.columns, trees[fk.table][k])
                          = Projection(fk.referred_table, fk.referred_columns,
                                       trees[fk.referred_table][p])]_vars

----------------------------------------------------------------------------
(* What an INSERT leaves of the rows stored before it (table_handler.rs,  *)
(* interpreter.rs).                                                       *)

\* parent and child of ParentChild with ON DELETE CASCADE
GrowInit ==
    /\ tables = ParentChild(Cascade, NoAction).tables
    /\ foreign_keys = ParentChild(Cascade, NoAction).foreign_keys
    /\ trees = [t \in DOMAIN tables |-> EmptyTree]
    /\ result = [op |-> "None", table |-> "", keys |-> {}, err |-> Ok]

\* Database::execute_query with one INSERT statement of one or more rows;
\* before is the trees as the statement found them
InsertMany ==
    \E t \in DOMAIN tables : \E rows \in ValuesLists(t) :
        /\ generate_next_index(trees[t]) + Len(rows) - 1 <= MaxKey
        /\ LET r == execute_insert(trees, t, rows) IN
           /\ trees' = r.trees
           /\ result' = [op |-> "Insert", table |-> t, keys |-> {}, err |-> r.err,
                         rows |-> rows, before |-> trees]
        /\ UNCHANGED <<tables, foreign_keys>>

GrowNext == InsertMany \/ Delete

GrowSpec == GrowInit /\ [][GrowNext]_vars

\* the keys the statement stored rows under
NewKeys == (DOMAIN trees[result.table]) \ (DOMAIN result.before[result.table])

\* C40: after an INSERT of k rows that succeeds, the table holds k more
\* keys than before, the rows under them are the rows of the statement in
\* their order, every row stored before is still stored under its key with
\* its values, and the other tables are as they were.
C40_InsertOnlyAdds ==
    (result.op = "Insert" /\ result.err = Ok)
    => /\ Cardinality(NewKeys) = Len(result.rows)
       /\ \A n \in 1..Len(result.rows) :
             trees[result.table][sorted_keys(NewKeys)[n]] = result.rows[n]
       /\ \A k \in DOMAIN result.before[result.table] :
             /\ k \in DOMAIN trees[result.table]
             /\ trees[result.table][k] = result.before[result.table][k]
       /\ \A t \in (DOMAIN tables) \ {result.table} : trees[t] = result.before[t]

\* a row was added to parent beside a stored row while child holds a row
C40_Witness ==
    /\ result.op = "Insert" /\ result.err = Ok
    /\ result.table = "parent"
    /\ result.before["parent"] # EmptyTree
    /\ result.before["child"] # EmptyTree
    /\ Cardinality(DOMAIN trees["parent"]) = 2

====
